---------------------------- MODULE Spec2Model ----------------------------
(***************************************************************************)
(* Model of the hob3l front end and layer driver.                          *)
(*                                                                         *)
(*   - the SCAD scanner and recursive-descent parser of src/src/syn.c      *)
(*     (lex_next, tok_next_aux2, tok_next, expect_err, parse_*,            *)
(*     cp_syn_parse),                                                      *)
(*   - the layer driver of src/src/main.c (next_i, process_stack_csg,      *)
(*     process_stack_diff, the tail of do_file), run by one thread and by  *)
(*     several,                                                            *)
(*   - the z range selection of do_file,                                   *)
(*   - the line table of cp_scad_read_file and cp_syn_get_loc,             *)
(*   - main from the output file on, with the stages of do_file,           *)
(*   - the scanner once more, one statement at a time, with the bytes it   *)
(*     reads and writes.                                                   *)
(*                                                                         *)
(* Bytes are ASCII codes.  Pointers into a file buffer are 0-based byte    *)
(* offsets; a buffer is a sequence whose element k+1 is the byte at        *)
(* offset k.                                                               *)
(***************************************************************************)
EXTENDS Integers, Sequences, FiniteSets, TLC

(***************************************************************************)
(* Bounds of the model                                                     *)
(***************************************************************************)
\* longest byte-level input of the scanner specification
MaxLen == 4
\* number of tok_next calls made on one input
MaxCalls == 6
\* most tokens inside the bracket of a bracketed-value input
MaxValToks == 6
\* most tokens of a form input
MaxFormToks == 5
\* most layers of the layer driver
MaxCount == 3
\* the next_i harness: largest count, and calls made after the last index
NextIMaxCount == 12
ExtraCalls == 2
\* longest input of the white-space specification, and bytes inserted
WsMaxLen == 3
MaxInsert == 1

\* the threads of one pass and the layers they share
MaxWorkers == 2
WkMaxCount == 2

\* the z range: largest z coordinate, most leaves of a tree, largest z_step
\* in units of two grid steps
ZMax == 2
MaxLeaves == 2
MaxHalfStep == 1

\* longest file of the line table specification
LocMaxLen == 4

\* main: most bytes of an output file name before its ending, and most dump
\* options on the command line
MaxStem == 1
MaxDumpFlags == 2

\* most modifiers in front of a call
MaxMods == 4

\* longest input of the termination specification
TermMaxLen == 3

\* longest file with NUL bytes
NulMaxLen == 4

\* the step-by-step scanner: bytes of a file, calls of tok_next on it
LexMaxLen == 4
LexMaxCalls == 4

(***************************************************************************)
(* Token types, syn.c:14-23                                                *)
(***************************************************************************)
T_EOF == 0
T_ERROR == 257
T_ID == 258
T_INT == 259
T_FLOAT == 260
T_STRING == 261
T_LCOM == 262
T_BCOM == 263

(***************************************************************************)
(* Bytes named in the scanner                                              *)
(***************************************************************************)
C_NUL == 0
C_TAB == 9
C_LF == 10
C_CR == 13
C_SP == 32
C_EXCL == 33
C_QUOTE == 34
C_HASH == 35
C_DOLLAR == 36
C_PCT == 37
C_LPAR == 40
C_RPAR == 41
C_AST == 42
C_PLUS == 43
C_COMMA == 44
C_MINUS == 45
C_DOT == 46
C_SLASH == 47
C_0 == 48
C_9 == 57
C_COLON == 58
C_SEMI == 59
C_EQ == 61
C_UA == 65
C_UE == 69
C_UZ == 90
C_LBRACK == 91
C_BSLASH == 92
C_RBRACK == 93
C_USCORE == 95
C_a == 97
C_e == 101
C_z == 122
C_LBRACE == 123
C_RBRACE == 125

\* bytes of the inputs that the scanner does not name
C_1 == C_0 + 1
C_f == C_a + 5

(***************************************************************************)
(* State                                                                   *)
(***************************************************************************)
VARIABLES
    content_orig,  \* cp_syn_file_t.content_orig: untouched copy of the file
    content,       \* cp_syn_file_t.content: working buffer, NUL terminated
    lex_cur,       \* parse_t.lex_cur
    lex_string,    \* parse_t.lex_string (offset into content)
    lex_end,       \* parse_t.lex_end (offset of the terminating NUL)
    tok_type,      \* parse_t.tok_type
    tok_string,    \* parse_t.tok_string (offset into content)
    err_msg,       \* tree->err.msg: the pieces appended by cp_vchar_printf
    hung,          \* TRUE when the running call never returns
    delivered      \* history: one record per returned tok_next call

scan_vars == <<content_orig, content, lex_cur, lex_string, lex_end,
               tok_type, tok_string, err_msg, hung, delivered>>

VARIABLES
    pc,            \* position of cp_syn_parse
    ok,            \* cp_syn_parse: the local ok, result of parse_body
    ret,           \* cp_syn_parse: the value returned, once pc = "done"
    toplevel,      \* cp_syn_tree_t.toplevel: the forms parsed
    err_loc        \* tree->err.loc, NULL until set

parse_vars == <<pc, ok, ret, toplevel, err_loc>>

VARIABLES
    dpc,           \* position in do_file / process_stack_csg / _diff
    opt,           \* cp_opt_t: the flags the driver reads
    zi_count,      \* range.cnt, the number of layers
    zi,            \* do_file: size_t zi, the shared next-index counter
    cur_i,         \* process_stack_*: size_t i, NULL while unset
    pool,          \* the scratch pool: what was allocated since its clear
    trace,         \* history: the calls made on layers, in order
    calls,         \* history: the next_i calls of the current pass
    derr,          \* the error a failing slicer or triangulator reported
    do_ret,        \* do_file: "none" while running, then "true"/"false"
    emitted        \* the emitter do_file called, "none" if none

drv_vars == <<dpc, opt, zi_count, zi, cur_i, pool, trace, calls, derr,
              do_ret, emitted>>

VARIABLES
    ws_s,          \* an input file content
    ws_t           \* ws_s with white space inserted between its tokens

ws_vars == <<ws_s, ws_t>>

VARIABLES
    wk_n,          \* the number of threads that run one pass
    wk_pass,       \* the pass the threads run: 1, 2, or 0 when do_file is over
    wk_pc,         \* per thread: its position in process_stack_csg / _diff
    wk_i,          \* per thread: process_stack_*: size_t i
    wk_pool,       \* per thread: its own pool, what it holds since its clear
    wk_fails,      \* the calls that fail on this input: pairs <<op, layer>>
    wk_calls,      \* history: the next_i calls made, with the error state
    wk_hist,       \* history: per pass and layer, the calls made on it
    wk_tree        \* the layers of the 2D trees csg2 and csg2b

wk_vars == <<wk_n, wk_pass, wk_pc, wk_i, wk_pool, wk_fails, wk_calls, wk_hist,
             wk_tree>>

VARIABLES
    zr_pc,         \* position in do_file between stage 3 and the first pass
    zr_tree,       \* the CSG3 tree: its leaves, with their z extent
    zr_opt,        \* cp_opt_t: z_min, z_max, z_step, have_z_min, have_z_max
    zr_full_bb,    \* do_file: full_bb, the z part
    zr_bb,         \* do_file: bb, the z part
    zr_z_min,      \* do_file: cp_dim_t z_min
    zr_z_max,      \* do_file: cp_dim_t z_max
    zr_range       \* do_file: cp_range_t range

zr_vars == <<zr_pc, zr_tree, zr_opt, zr_full_bb, zr_bb, zr_z_min, zr_z_max,
             zr_range>>

VARIABLES
    ln_pc,         \* "open" before cp_scad_read_file, "read" after it
    ln_file,       \* the bytes of the FILE that is read
    ln_line,       \* cp_syn_file_t.line: offsets into content
    ln_token,      \* cp_syn_get_loc: the pointer passed, NULL before a call
    ln_loc,        \* cp_syn_get_loc: *loc after the call
    ln_ret         \* cp_syn_get_loc: "none" before a call, then the result

ln_vars == <<ln_pc, ln_file, ln_line, ln_token, ln_loc, ln_ret>>

VARIABLES
    mn_pc,         \* position in main, from "output file:" on (main.c:582)
    mn_opt,        \* cp_opt_t: the dump flags, have_dump, out_file_name
    mn_in,         \* main's in_file_name: "name", or "null" when none given
    mn_fails,      \* the calls that fail in this run
    mn_fout,       \* FILE *fout: "null", "open" or "closed"
    mn_fin,        \* FILE *fin: "null", "open" or "closed"
    mn_pool,       \* do_file's cp_pool_t pool: "none", "init" or "released"
    mn_log,        \* the calls of do_file made so far, in order
    mn_ok,         \* main's local ok: "none" before do_file returned
    mn_msg,        \* r->err.msg
    mn_stderr,     \* what main printed on stderr
    mn_status      \* the argument of exit(), -1 while the process runs

mn_vars == <<mn_pc, mn_opt, mn_in, mn_fails, mn_fout, mn_fin, mn_pool, mn_log,
             mn_ok, mn_msg, mn_stderr, mn_status>>

VARIABLES
    lx_pc,         \* position inside tok_next / tok_next_aux2, "idle" outside
    lx_prev,       \* tok_next_aux2: char prev of the block comment loop
    lx_rd,         \* the buffer offsets the last step read through a pointer
    lx_wr,         \* the buffer offsets the last step wrote
    lx_from        \* history: tok_type and lex_string when tok_next was called

lx_vars == <<lx_pc, lx_prev, lx_rd, lx_wr, lx_from>>

\* the state of the parts that have a specification of their own below
ext_vars == <<wk_vars, zr_vars, ln_vars, mn_vars, lx_vars>>

(***************************************************************************)
(* Buffers                                                                 *)
(***************************************************************************)
\* *ptr for a pointer at offset k of buffer buf
At(buf, k) == buf[k + 1]

\* *ptr = c
Put(buf, k, c) == [buf EXCEPT ![k + 1] = c]

\* one cp_vchar_printf call: the format, the bytes of its %c or %s argument
\* taken from the buffer, and its %s argument when that is a literal
Msg(fmt, arg, str) == [fmt |-> fmt, arg |-> arg, str |-> str]

\* (p.hung: control is in a call that never returns, nothing is executed)
cp_vchar_printf(p, fmt, arg, str) ==
    IF p.hung THEN p
    ELSE [p EXCEPT !.err_msg = Append(@, Msg(fmt, arg, str))]

\* the C string starting at offset k of buf (bytes up to the first NUL)
RECURSIVE CStr(_, _)
CStr(buf, k) ==
    IF k + 1 > Len(buf) \/ At(buf, k) = C_NUL
    THEN << >>
    ELSE << At(buf, k) >> \o CStr(buf, k + 1)

\* first offset j >= k whose byte is not in S
RECURSIVE RunEnd(_, _, _)
RunEnd(buf, k, S) ==
    IF k + 1 > Len(buf) \/ At(buf, k) \notin S THEN k ELSE RunEnd(buf, k + 1, S)

(***************************************************************************)
(* Scanner, syn.c:36-243.  p is the record of the parse_t fields together  *)
(* with the working buffer and the error message of the tree.              *)
(***************************************************************************)
have_err_msg(p) == Len(p.err_msg) > 0

lex_next(p) ==
    IF p.lex_string >= p.lex_end
    THEN [p EXCEPT !.lex_cur = C_NUL]
    ELSE [p EXCEPT !.lex_string = p.lex_string + 1,
                   !.lex_cur = At(p.content, p.lex_string + 1)]

\* variant: the line feed is not white space
is_space_nolf(c) == (c = C_SP) \/ (c = C_TAB) \/ (c = C_CR)

is_space(c) == (c = C_SP) \/ (c = C_TAB) \/ (c = C_CR) \/ (c = C_LF)

is_digit(c) == (c >= C_0) /\ (c <= C_9)

is_alpha(c) ==
    ((c >= C_a) /\ (c <= C_z)) \/ ((c >= C_UA) /\ (c <= C_UZ))

is_idchar(c) == is_alpha(c) \/ is_digit(c) \/ (c = C_USCORE)

\* while (is_space(p->lex_cur)) lex_next(p);
RECURSIVE skip_space(_)
skip_space(p) ==
    IF is_space(p.lex_cur) THEN skip_space(lex_next(p)) ELSE p

\* while (is_digit(p->lex_cur)) lex_next(p);
RECURSIVE skip_digits(_)
skip_digits(p) ==
    IF is_digit(p.lex_cur) THEN skip_digits(lex_next(p)) ELSE p

\* while (is_alpha || is_digit || '_') lex_next(p);
RECURSIVE skip_idchars(_)
skip_idchars(p) ==
    IF is_idchar(p.lex_cur) THEN skip_idchars(lex_next(p)) ELSE p

\* variant: the cached character is read back from the buffer after the write
put_nul_sync(p) ==
    [p EXCEPT !.content = Put(p.content, p.lex_string, C_NUL),
              !.lex_cur = C_NUL]

\* *p->lex_string = '\0'
put_nul(p) == [p EXCEPT !.content = Put(p.content, p.lex_string, C_NUL)]

\* the error exits of tok_next_aux2: message only if none yet, T_ERROR
scan_error(p, fmt) ==
    LET q == IF ~have_err_msg(p) THEN cp_vchar_printf(p, fmt, << >>, "") ELSE p
    IN  [q EXCEPT !.tok_type = T_ERROR]

\* p->tok_string = p->lex_string, syn.c:85 and 111
set_tok_string(p) == [p EXCEPT !.tok_string = p.lex_string]

\* if (p->lex_cur == '+') { ... }, syn.c:109-112
number_plus(p) ==
    IF p.lex_cur = C_PLUS THEN set_tok_string(lex_next(p)) ELSE p

\* if (p->lex_cur == '-') { ... }, syn.c:113-115
number_minus(p) == IF p.lex_cur = C_MINUS THEN lex_next(p) ELSE p

\* if (p->lex_cur == '.') { ... }, syn.c:119-125
number_fraction(p) ==
    IF p.lex_cur = C_DOT
    THEN skip_digits(lex_next([p EXCEPT !.tok_type = T_FLOAT]))
    ELSE p

\* if ((p->lex_cur == '-') || (p->lex_cur == '+')) { ... }, syn.c:129-131
number_exp_sign(p) ==
    IF (p.lex_cur = C_MINUS) \/ (p.lex_cur = C_PLUS) THEN lex_next(p) ELSE p

\* variant: the exponent leaves the kind of the token as it is
number_exponent_int(p) ==
    IF (p.lex_cur = C_e) \/ (p.lex_cur = C_UE)
    THEN skip_digits(number_exp_sign(lex_next(p)))
    ELSE p

\* if ((p->lex_cur == 'e') || (p->lex_cur == 'E')) { ... }, syn.c:126-135
number_exponent(p) ==
    IF (p.lex_cur = C_e) \/ (p.lex_cur = C_UE)
    THEN skip_digits(number_exp_sign(
             lex_next([p EXCEPT !.tok_type = T_FLOAT])))
    ELSE p

\* INT and FLOAT, syn.c:93-137
scan_number(p) ==
    IF At(p.content, p.lex_string) = C_NUL
    THEN scan_error(p, "Expected no number here.\n")
    ELSE put_nul(number_exponent(number_fraction(skip_digits(
             number_minus(number_plus([p EXCEPT !.tok_type = T_INT]))))))

\* if (p->lex_cur == '$') lex_next(p), syn.c:150-152
id_dollar(p) == IF p.lex_cur = C_DOLLAR THEN lex_next(p) ELSE p

\* ID, syn.c:142-163
scan_id(p) ==
    IF At(p.content, p.lex_string) = C_NUL
    THEN scan_error(p, "Expected no identifier here.\n")
    ELSE put_nul(skip_idchars(id_dollar([p EXCEPT !.tok_type = T_ID])))

\* the while loop of the STRING case, syn.c:172-184.  The loop state is p;
\* an iteration that leaves p unchanged repeats forever.
RECURSIVE string_loop(_)

\* lex_next(p) at the end of the loop body, syn.c:183: p is the state at
\* the start of the iteration, n the state at its end
string_advance(p, n) ==
    IF n = p THEN [p EXCEPT !.hung = TRUE] ELSE string_loop(n)

\* after the lex_next(p) that follows a backslash, syn.c:175-181
string_escaped(p, q) ==
    IF At(q.content, q.lex_string) = C_NUL
    THEN scan_error(q, "End of file inside string.\n")
    ELSE string_advance(p, lex_next(q))

string_loop(p) ==
    IF At(p.content, p.lex_string) = C_QUOTE
    THEN p
    ELSE IF At(p.content, p.lex_string) = C_BSLASH
    THEN string_escaped(p, lex_next(p))
    ELSE string_advance(p, lex_next(p))

\* p->tok_type = T_STRING; p->tok_string = p->lex_string, syn.c:170-171
string_open(p) == [p EXCEPT !.tok_type = T_STRING, !.tok_string = p.lex_string]

\* variant: the closing quote is not overwritten with NUL
string_close_noterm(p) ==
    IF p.hung \/ p.tok_type = T_ERROR THEN p ELSE lex_next(p)

\* after the loop, syn.c:185-187 (not reached when the loop does not end
\* or has returned with an error)
string_close(p) ==
    IF p.hung \/ p.tok_type = T_ERROR THEN p ELSE lex_next(put_nul(p))

\* STRING, syn.c:167-188
scan_string(p) == string_close(string_loop(string_open(lex_next(put_nul(p)))))

\* line comment, syn.c:197-202
RECURSIVE lcom_loop(_)
lcom_loop(p) ==
    IF (p.lex_cur # C_LF) /\ (p.lex_cur # C_NUL)
    THEN lcom_loop(lex_next(p))
    ELSE p

scan_lcom(p) == lcom_loop([p EXCEPT !.tok_type = T_LCOM])

\* variant: the end of input closes a block comment
RECURSIVE bcom_loop_quiet(_, _)
bcom_loop_quiet(p, prev) ==
    IF (prev # C_AST) \/ (p.lex_cur # C_SLASH)
    THEN IF p.lex_cur = C_NUL
         THEN p
         ELSE bcom_loop_quiet(lex_next(p), p.lex_cur)
    ELSE p

\* block comment, syn.c:207-224
RECURSIVE bcom_loop(_, _)
bcom_loop(p, prev) ==
    IF (prev # C_AST) \/ (p.lex_cur # C_SLASH)
    THEN IF p.lex_cur = C_NUL
         THEN scan_error(p, "File ends inside comment.\n")
         ELSE bcom_loop(lex_next(p), p.lex_cur)
    ELSE p

scan_bcom(p) ==
    lex_next(bcom_loop(lex_next(lex_next([p EXCEPT !.tok_type = T_BCOM])), 0))

\* by default, read a single character, syn.c:228-230
scan_char(p) == lex_next([p EXCEPT !.tok_type = p.lex_cur % 128])

\* the cases of tok_next_aux2 on the first byte of the token, syn.c:87-230
scan_dispatch(q) ==
    IF (q.lex_cur = C_PLUS) \/ (q.lex_cur = C_MINUS) \/ (q.lex_cur = C_DOT)
       \/ is_digit(q.lex_cur)
    THEN scan_number(q)
    ELSE IF (q.lex_cur = C_DOLLAR) \/ (q.lex_cur = C_USCORE)
            \/ is_alpha(q.lex_cur)
    THEN scan_id(q)
    ELSE IF q.lex_cur = C_QUOTE
    THEN scan_string(q)
    ELSE IF (q.lex_cur = C_SLASH)
            /\ (At(q.content, q.lex_string + 1) = C_SLASH)
    THEN scan_lcom(q)
    ELSE IF (q.lex_cur = C_SLASH)
            /\ (At(q.content, q.lex_string + 1) = C_AST)
    THEN scan_bcom(q)
    ELSE scan_char(q)

\* tok_next_aux2 after its guard, syn.c:78-230
scan_token(p) == scan_dispatch(set_tok_string(skip_space(p)))

\* variant: the scanner scans on after an error
tok_next_aux2_rescan(p) == scan_token(p)

\* do not scan beyond an error, syn.c:71-76
tok_next_aux2(p) ==
    IF p.tok_type = T_ERROR THEN p ELSE scan_token(p)

\* variant: only the line comment counts as a comment
is_comment_line(t) == (t = T_LCOM)

is_comment(t) == (t = T_LCOM) \/ (t = T_BCOM)

RECURSIVE tok_next(_)

\* while (is_comment(p->tok_type)), syn.c:242; a call of tok_next_aux2
\* that does not return never gets here
tok_next_while(q) ==
    IF q.hung THEN q
    ELSE IF is_comment(q.tok_type) THEN tok_next(q)
    ELSE q

\* do { tok_next_aux2(p); } while (is_comment(p->tok_type));
tok_next(p) == tok_next_while(tok_next_aux2(p))

\* variant: the end of the content is taken after the terminating NUL
read_file_past(s) ==
    [content   |-> Append(s, C_NUL),
     lex_string |-> 0,
     lex_cur   |-> At(Append(s, C_NUL), 0),
     lex_end   |-> Len(s) + 1,
     tok_type  |-> T_EOF,
     tok_string |-> 0,
     err_msg   |-> << >>,
     hung      |-> FALSE]

(***************************************************************************)
(* cp_scad_read_file, syn.c:734-743: the buffers and the scanner after the *)
(* file content s was read                                                 *)
(***************************************************************************)
read_file(s) ==
    [content   |-> Append(s, C_NUL),
     lex_string |-> 0,
     lex_cur   |-> At(Append(s, C_NUL), 0),
     lex_end   |-> Len(s),
     tok_type  |-> T_EOF,
     tok_string |-> 0,
     err_msg   |-> << >>,
     hung      |-> FALSE]

\* the scanner record held by the state variables
P == [content |-> content, lex_string |-> lex_string, lex_cur |-> lex_cur,
      lex_end |-> lex_end, tok_type |-> tok_type, tok_string |-> tok_string,
      err_msg |-> err_msg, hung |-> hung]

SetP(q) ==
    /\ content' = q.content
    /\ lex_string' = q.lex_string
    /\ lex_cur' = q.lex_cur
    /\ lex_end' = q.lex_end
    /\ tok_type' = q.tok_type
    /\ tok_string' = q.tok_string
    /\ err_msg' = q.err_msg
    /\ hung' = q.hung

(***************************************************************************)
(* Parser, syn.c:245-707.  Every parse function is an operator from the    *)
(* scanner record p and the object r it fills in to [ok, p, r]: the        *)
(* returned bool, the scanner afterwards and the object afterwards.        *)
(* A pointer to a value is a sequence of no (NULL) or one value.           *)
(***************************************************************************)
NULL == -1

Ret(b, p, r) == [ok |-> b, p |-> p, r |-> r]

\* (p.hung: control is in a call that never returns, nothing is executed)
expect(p, type) ==
    IF ~p.hung /\ p.tok_type = type
    THEN Ret(TRUE, tok_next(p), << >>)
    ELSE Ret(FALSE, p, << >>)

get_tok_string(p) ==
    IF p.tok_type \in {T_INT, T_FLOAT, T_ID} THEN p.tok_string ELSE NULL

\* the description, or no element for NULL
get_tok_description(type) ==
    IF type \in {C_SP, C_TAB, C_CR, C_LF} THEN << "white space" >>
    ELSE IF type = T_STRING THEN << "string" >>
    ELSE IF type = T_EOF THEN << "end of file" >>
    ELSE IF type = T_LCOM THEN << "comment" >>
    ELSE IF type = T_BCOM THEN << "comment" >>
    ELSE << >>

\* if ((p->tok_type >= 32) && (p->tok_type <= 127)), syn.c:293-295
err_found_char(p) ==
    IF (p.tok_type >= 32) /\ (p.tok_type <= 127)
    THEN cp_vchar_printf(p, ", found '%c'", << p.tok_type >>, "")
    ELSE p

\* str = get_tok_string(p); if (str != NULL), syn.c:297-300
err_found_string(p) ==
    IF get_tok_string(p) # NULL
    THEN cp_vchar_printf(p, ", found '%s'",
                         CStr(p.content, get_tok_string(p)), "")
    ELSE p

\* str = get_tok_description(p->tok_type); if (str != NULL), syn.c:302-305
err_found_description(p) ==
    IF get_tok_description(p.tok_type) # << >>
    THEN cp_vchar_printf(p, ", found %s", << >>,
                         get_tok_description(p.tok_type)[1])
    ELSE p

err_found(p) ==
    cp_vchar_printf(
        err_found_description(err_found_string(err_found_char(p))),
        ".\n", << >>, "")

\* if ((type >= 32) && (type <= 127)), syn.c:322-325
expect_err_char(p, type) ==
    IF (type >= 32) /\ (type <= 127)
    THEN err_found(cp_vchar_printf(p, "Expected '%c'", << type >>, ""))
    ELSE p

\* str = get_tok_description(type); if (str != NULL), syn.c:327-331
expect_err_description(p, type) ==
    IF get_tok_description(type) # << >>
    THEN err_found(cp_vchar_printf(p, "Expected %s", << >>,
                                   get_tok_description(type)[1]))
    ELSE p

\* expect_err after its call of expect, whose result is e, syn.c:314-333
expect_err_found(e, type) ==
    IF e.ok THEN e
    ELSE IF have_err_msg(e.p) THEN Ret(FALSE, e.p, << >>)
    ELSE Ret(FALSE,
             expect_err_description(expect_err_char(e.p, type), type),
             << >>)

expect_err(p, type) == expect_err_found(expect(p, type), type)

\* the result e of a call, with the object r the caller filled in
WithR(e, r) == Ret(e.ok, e.p, r)

\* *string = p->tok_string; return expect_err(p, T_ID);
parse_id(p) == WithR(expect_err(p, T_ID), p.tok_string)

\* value of the decimal digits ds read left to right, starting from acc
RECURSIVE DigitsValue(_, _)
DigitsValue(ds, acc) ==
    IF ds = << >> THEN acc
    ELSE DigitsValue(Tail(ds), acc * 10 + (Head(ds) - C_0))

\* strtoll(s, NULL, 10) of a C string s: white space, sign, digits; the
\* inputs of the model stay far below LLONG_MAX
strtoll(s) ==
    LET a == RunEnd(s, 0, {C_SP, C_TAB, C_LF, C_CR, 11, 12})
        neg == a < Len(s) /\ At(s, a) = C_MINUS
        b == IF a < Len(s) /\ At(s, a) \in {C_MINUS, C_PLUS} THEN a + 1 ELSE a
        c == RunEnd(s, b, C_0 .. C_9)
        v == DigitsValue(SubSeq(s, b + 1, c), 0)
    IN  IF neg THEN 0 - v ELSE v

\* m * 10^e without trailing zeros in m
RECURSIVE Normal(_, _)
Normal(m, e) ==
    IF m = 0 THEN [m |-> 0, e |-> 0]
    ELSE IF m % 10 = 0 THEN Normal(m \div 10, e + 1)
    ELSE [m |-> m, e |-> e]

\* strtod(s, NULL) of a C string s made of sign, digits, '.', exponent: the
\* decimal value m * 10^e of the longest prefix that is a number.
\* The length of the sign:
strtod_sign(s) ==
    IF 0 < Len(s) /\ At(s, 0) \in {C_MINUS, C_PLUS} THEN 1 ELSE 0

\* the digits of the fraction, b the offset after the integer digits
strtod_fraction(s, b) ==
    IF b < Len(s) /\ At(s, b) = C_DOT
    THEN SubSeq(s, b + 2, RunEnd(s, b + 1, C_0 .. C_9))
    ELSE << >>

\* the offset after the mantissa
strtod_mantissa_end(s, b) ==
    IF b < Len(s) /\ At(s, b) = C_DOT
    THEN RunEnd(s, b + 1, C_0 .. C_9)
    ELSE b

\* the value of the exponent digits at offset d, 0 if there are none
strtod_exp_digits(s, d) ==
    DigitsValue(SubSeq(s, d + 1, RunEnd(s, d, C_0 .. C_9)), 0)

\* the exponent, c the offset after the mantissa
strtod_exponent(s, c) ==
    IF ~(c < Len(s) /\ At(s, c) \in {C_e, C_UE}) THEN 0
    ELSE IF c + 1 < Len(s) /\ At(s, c + 1) = C_MINUS
    THEN 0 - strtod_exp_digits(s, c + 2)
    ELSE IF c + 1 < Len(s) /\ At(s, c + 1) = C_PLUS
    THEN strtod_exp_digits(s, c + 2)
    ELSE strtod_exp_digits(s, c + 1)

strtod_decimal(neg, n) == [neg |-> neg, m |-> n.m, e |-> n.e]

\* ip, fp the integer and fraction digits, xs the exponent
strtod_value(neg, ip, fp, xs) ==
    IF Len(ip) + Len(fp) > 0
    THEN strtod_decimal(neg, Normal(DigitsValue(ip \o fp, 0), xs - Len(fp)))
    ELSE [neg |-> FALSE, m |-> 0, e |-> 0]

\* a the offset after the sign, b the offset after the integer digits
strtod_digits(s, a, b) ==
    strtod_value(0 < Len(s) /\ At(s, 0) = C_MINUS,
                 SubSeq(s, a + 1, b),
                 strtod_fraction(s, b),
                 strtod_exponent(s, strtod_mantissa_end(s, b)))

strtod(s) ==
    strtod_digits(s, strtod_sign(s), RunEnd(s, strtod_sign(s), C_0 .. C_9))

CP_SYN_VALUE_ID == "id"
CP_SYN_VALUE_INT == "int"
CP_SYN_VALUE_FLOAT == "float"
CP_SYN_VALUE_STRING == "string"
CP_SYN_VALUE_RANGE == "range"
CP_SYN_VALUE_ARRAY == "array"

\* value_new: a zeroed value of the given type at loc
value_new(type, loc) ==
    IF type = CP_SYN_VALUE_ID THEN [type |-> type, loc |-> loc, id |-> NULL]
    ELSE IF type = CP_SYN_VALUE_INT THEN [type |-> type, loc |-> loc, ival |-> 0]
    ELSE IF type = CP_SYN_VALUE_FLOAT
         THEN [type |-> type, loc |-> loc,
               fval |-> [neg |-> FALSE, m |-> 0, e |-> 0]]
    ELSE IF type = CP_SYN_VALUE_STRING
         THEN [type |-> type, loc |-> loc, str |-> NULL]
    ELSE IF type = CP_SYN_VALUE_RANGE
         THEN [type |-> type, loc |-> loc,
               start |-> << >>, inc |-> << >>, end |-> << >>]
    ELSE [type |-> type, loc |-> loc, value |-> << >>]

value_id_new(loc) == [value_new(CP_SYN_VALUE_ID, loc) EXCEPT !.id = loc]

parse_new_id(p) ==
    WithR(expect_err(p, T_ID), << value_id_new(p.tok_string) >>)

parse_new_int(p) ==
    WithR(expect_err(p, T_INT),
          << [value_new(CP_SYN_VALUE_INT, p.tok_string)
                EXCEPT !.ival = strtoll(CStr(p.content, p.tok_string))] >>)

parse_new_float(p) ==
    WithR(expect_err(p, T_FLOAT),
          << [value_new(CP_SYN_VALUE_FLOAT, p.tok_string)
                EXCEPT !.fval = strtod(CStr(p.content, p.tok_string))] >>)

parse_new_string(p) ==
    WithR(expect_err(p, T_STRING),
          << [value_new(CP_SYN_VALUE_STRING, p.tok_string)
                EXCEPT !.str = p.tok_string] >>)

looking_at_value(p) ==
    p.tok_type \in {T_INT, T_FLOAT, T_STRING, T_ID, C_LBRACK}

RECURSIVE parse_value(_, _)
RECURSIVE array_loop(_, _)

\* if (!parse_value(p, &elem)) return false; cp_v_push(a, elem);
\* syn.c:500-503, v the result of parse_value
array_push(v, a) ==
    IF ~v.ok THEN Ret(FALSE, v.p, a)
    ELSE array_loop(v.p, [a EXCEPT !.value = @ \o v.r])

\* the loop condition, syn.c:497-498, e the result of expect(p, ',')
array_while(e, a) ==
    IF e.ok /\ looking_at_value(e.p)
    THEN array_push(parse_value(e.p, << >>), a)
    ELSE Ret(TRUE, e.p, a)

\* while (expect(p, ',') && looking_at_value(p)) { ... }, syn.c:497-504;
\* a is the array value
array_loop(p, a) == array_while(expect(p, C_COMMA), a)

\* variant: the value after the second colon is stored as the increment
range_colon_noswap(e, r) ==
    IF e.ok
    THEN Ret(parse_value(e.p, r.inc).ok, parse_value(e.p, r.inc).p,
             [r EXCEPT !.inc = parse_value(e.p, r.inc).r])
    ELSE Ret(TRUE, e.p, r)

\* the second parse_value of a range with increment, syn.c:485-487
range_end(v, r) == Ret(v.ok, v.p, [r EXCEPT !.end = v.r])

\* if (expect(p, ':')) { inc = end; parse_value(p, &end) }, syn.c:483-488,
\* e the result of expect
range_colon(e, r) ==
    IF e.ok
    THEN range_end(parse_value(e.p, r.end), [r EXCEPT !.inc = r.end])
    ELSE Ret(TRUE, e.p, r)

\* if (!parse_value(p, &end)) return false; end the range end, syn.c:479-481,
\* v the result of parse_value
range_second(v, r) ==
    IF ~v.ok THEN Ret(FALSE, v.p, [r EXCEPT !.end = v.r])
    ELSE range_colon(expect(v.p, C_COLON), [r EXCEPT !.end = v.r])

\* the range branch, syn.c:476-488, r the new range value
range_new(p, r) == range_second(parse_value(p, r.end), r)

range_tail(p, loc, start) ==
    range_new(p, [value_new(CP_SYN_VALUE_RANGE, loc) EXCEPT !.start = start])

\* return expect_err(p, ']'), syn.c:507; body is the result of the range
\* or the array branch, whose failure has returned false
range_or_array_close(body) ==
    IF ~body.ok THEN Ret(FALSE, body.p, << body.r >>)
    ELSE WithR(expect_err(body.p, C_RBRACK), << body.r >>)

\* if (expect(p, ':')) range, else array, syn.c:474-505; c the result of
\* expect
range_or_array(c, loc, start) ==
    range_or_array_close(
        IF c.ok
        THEN range_tail(c.p, loc, start)
        ELSE array_loop(c.p, [value_new(CP_SYN_VALUE_ARRAY, loc)
                                EXCEPT !.value = start]))

\* if (!parse_value(p, &start)) return false; syn.c:469-472
range_or_array_start(s, loc, rp) ==
    IF ~s.ok THEN Ret(FALSE, s.p, rp)
    ELSE range_or_array(expect(s.p, C_COLON), loc, s.r)

\* if (expect(p, ']')) empty array, syn.c:463-467; e the result of expect
range_or_array_empty(e, loc, rp) ==
    IF e.ok THEN Ret(TRUE, e.p, << value_new(CP_SYN_VALUE_ARRAY, loc) >>)
    ELSE range_or_array_start(parse_value(e.p, << >>), loc, rp)

\* if (!expect_err(p, '[')) return false; syn.c:459-461
range_or_array_open(e, loc, rp) ==
    IF ~e.ok THEN Ret(FALSE, e.p, rp)
    ELSE range_or_array_empty(expect(e.p, C_RBRACK), loc, rp)

parse_new_range_or_array(p, rp) ==
    range_or_array_open(expect_err(p, C_LBRACK), p.tok_string, rp)

parse_value(p, r) ==
    IF p.tok_type = T_INT THEN parse_new_int(p)
    ELSE IF p.tok_type = T_FLOAT THEN parse_new_float(p)
    ELSE IF p.tok_type = T_STRING THEN parse_new_string(p)
    ELSE IF p.tok_type = T_ID THEN parse_new_id(p)
    ELSE IF p.tok_type = C_LBRACK THEN parse_new_range_or_array(p, r)
    ELSE IF ~have_err_msg(p)
         THEN Ret(FALSE,
                  err_found(cp_vchar_printf(
                      p, "Expected int, float, or identifier", << >>, "")),
                  r)
         ELSE Ret(FALSE, p, r)

looking_at_arg(p) == (p.tok_type = T_ID) \/ looking_at_value(p)

\* CP_NEW(cp_syn_arg_t)
arg_new == [key |-> NULL, value |-> << >>]

\* return parse_value(p, &r->value), syn.c:576
parse_arg_value(v, r) == Ret(v.ok, v.p, [r EXCEPT !.value = v.r])

\* if (!expect(p, '=')) { r->value = value_id_new(t1); return true; }
\* r->key = t1; syn.c:569-573, e the result of expect
parse_arg_key(e, t1, r) ==
    IF ~e.ok
    THEN Ret(TRUE, e.p, [r EXCEPT !.value = << value_id_new(t1) >>])
    ELSE parse_arg_value(parse_value(e.p, r.value), [r EXCEPT !.key = t1])

\* t the result of parse_id, syn.c:567
parse_arg_id(t, r) == parse_arg_key(expect(t.p, C_EQ), t.r, r)

parse_arg(p, r) ==
    IF p.tok_type = T_ID
    THEN parse_arg_id(parse_id(p), r)
    ELSE parse_arg_value(parse_value(p, r.value), r)

\* cp_v_push(r, f) of an object f that the call with result e filled in
pushed(e, r) == Ret(e.ok, e.p, Append(r, e.r))

\* the new argument is pushed before it is parsed
parse_push_arg(p, r) == pushed(parse_arg(p, arg_new), r)

RECURSIVE parse_args(_, _)

\* if (!expect_err(p, ',')) return false; syn.c:602-604
parse_args_comma(e, r) ==
    IF ~e.ok THEN Ret(FALSE, e.p, r) ELSE parse_args(e.p, r)

\* after parse_push_arg with result a, syn.c:596-604
parse_args_pushed(a) ==
    IF ~a.ok THEN a
    ELSE IF a.p.tok_type = C_RPAR THEN Ret(TRUE, a.p, a.r)
    ELSE parse_args_comma(expect_err(a.p, C_COMMA), a.r)

parse_args(p, r) ==
    IF ~looking_at_arg(p) THEN Ret(TRUE, p, r)
    ELSE parse_args_pushed(parse_push_arg(p, r))

looking_at_modifier(p) == p.tok_type \in {C_AST, C_PCT, C_EXCL, C_HASH}

looking_at_func(p) ==
    (p.tok_type = T_ID) \/ (p.tok_type = C_SEMI) \/ (p.tok_type = C_LBRACE)
    \/ looking_at_modifier(p)

\* the modifier word is the set of its bits
CP_GC_MOD_EXCLAM == "!"
CP_GC_MOD_AST == "*"
CP_GC_MOD_PERCENT == "%"
CP_GC_MOD_HASH == "#"

\* the switch of parse_modifier, syn.c:633-640: the bit of a token type,
\* no bit in the default case
modifier_bit(type) ==
    IF type = C_EXCL THEN {CP_GC_MOD_EXCLAM}
    ELSE IF type = C_AST THEN {CP_GC_MOD_AST}
    ELSE IF type = C_PCT THEN {CP_GC_MOD_PERCENT}
    ELSE IF type = C_HASH THEN {CP_GC_MOD_HASH}
    ELSE {}

\* variant: *mod = bit instead of *mod |= bit
RECURSIVE parse_modifier_assign(_, _)
parse_modifier_assign(p, mod) ==
    IF modifier_bit(p.tok_type) # {}
    THEN parse_modifier_assign(tok_next(p), modifier_bit(p.tok_type))
    ELSE Ret(TRUE, p, mod)

RECURSIVE parse_modifier(_, _)
parse_modifier(p, mod) ==
    IF modifier_bit(p.tok_type) # {}
    THEN parse_modifier(tok_next(p), mod \cup modifier_bit(p.tok_type))
    ELSE Ret(TRUE, p, mod)

\* the functor "{" of an anonymous group: a pointer to a string literal
FunctorBrace == -2

\* CP_NEW(cp_syn_func_t)
func_new ==
    [functor |-> NULL, modifier |-> {}, arg |-> << >>, body |-> << >>,
     loc |-> NULL]

RECURSIVE parse_push_func(_, _)
RECURSIVE parse_body(_, _)

\* expect_err(p, ')') and r->loc = r->functor, syn.c:659-663
func_head_close(e, r) ==
    IF ~e.ok THEN Ret(FALSE, e.p, r)
    ELSE Ret(TRUE, e.p, [r EXCEPT !.loc = r.functor])

\* parse_args(p, &r->arg) && ..., syn.c:658, a its result
func_head_args(a, r) ==
    IF ~a.ok THEN Ret(FALSE, a.p, [r EXCEPT !.arg = a.r])
    ELSE func_head_close(expect_err(a.p, C_RPAR), [r EXCEPT !.arg = a.r])

\* expect_err(p, '(') && ..., syn.c:657, e its result
func_head_open(e, r) ==
    IF ~e.ok THEN Ret(FALSE, e.p, r)
    ELSE func_head_args(parse_args(e.p, r.arg), r)

\* parse_id(p, &r->functor) && ..., syn.c:656, i its result
func_head_id(i, r) ==
    IF ~i.ok THEN Ret(FALSE, i.p, [r EXCEPT !.functor = i.r])
    ELSE func_head_open(expect_err(i.p, C_LPAR), [r EXCEPT !.functor = i.r])

\* parse_modifier(p, &r->modifier) && ..., syn.c:655, m its result
func_head_modifier(m, r) ==
    func_head_id(parse_id(m.p), [r EXCEPT !.modifier = m.r])

\* modifiers, functor and arguments of a call, syn.c:654-663
func_head(p, r) == func_head_modifier(parse_modifier(p, r.modifier), r)

\* parse_body(p, &r->body) && expect_err(p, '}'), syn.c:675-676, b the
\* result of parse_body
func_tail_close(b, r) ==
    IF ~b.ok THEN Ret(FALSE, b.p, [r EXCEPT !.body = b.r])
    ELSE WithR(expect_err(b.p, C_RBRACE), [r EXCEPT !.body = b.r])

\* expect(p, '{') && ..., syn.c:674, e its result
func_tail_body(e, r) ==
    IF ~e.ok THEN Ret(FALSE, e.p, r)
    ELSE func_tail_close(parse_body(e.p, r.body), r)

\* return parse_push_func(p, &r->body), syn.c:679, f its result
func_tail_push(f, r) == Ret(f.ok, f.p, [r EXCEPT !.body = f.r])

\* the switch on the token after the head, syn.c:666-680
func_tail(p, r) ==
    IF p.tok_type = C_SEMI
    THEN WithR(expect(p, C_SEMI), r)
    ELSE IF p.tok_type = C_LBRACE
    THEN func_tail_body(expect(p, C_LBRACE), r)
    ELSE func_tail_push(parse_push_func(p, r.body), r)

\* if (!ok) return false; syn.c:660-662, h the result of the head
parse_func_head(h) == IF ~h.ok THEN h ELSE func_tail(h.p, h.r)

parse_func(p, r) ==
    IF p.tok_type = C_LBRACE
    THEN func_tail(p, [r EXCEPT !.functor = FunctorBrace, !.loc = p.tok_string])
    ELSE parse_func_head(func_head(p, r))

\* if (expect(p, ';')) return true; syn.c:687-689, e the result of expect;
\* the new form is pushed before it is parsed
parse_push_func_new(e, r) ==
    IF e.ok THEN Ret(TRUE, e.p, r)
    ELSE pushed(parse_func(e.p, func_new), r)

parse_push_func(p, r) == parse_push_func_new(expect(p, C_SEMI), r)

\* if (!parse_push_func(p, r)) return false; syn.c:702-704, f its result
parse_body_pushed(f) == IF ~f.ok THEN f ELSE parse_body(f.p, f.r)

parse_body(p, r) ==
    IF ~looking_at_func(p) THEN Ret(TRUE, p, r)
    ELSE parse_body_pushed(parse_push_func(p, r))

(***************************************************************************)
(* Inputs of the scanner specification: every byte string of at most       *)
(* MaxLen bytes over one of a few small alphabets                          *)
(***************************************************************************)
Alphabets ==
    { {C_1, C_a, C_QUOTE, C_DOT, C_SP},
      {C_QUOTE, C_BSLASH, C_a, C_1, C_SEMI},
      {C_SLASH, C_AST, C_LF, C_a, C_1},
      {C_PLUS, C_MINUS, C_DOT, C_e, C_1, C_SEMI} }

Strs(A, n) == UNION { [1..k -> A] : k \in 0..n }

\* the bytes of numbers with an upper case exponent marker
NumAlphabet == {C_PLUS, C_MINUS, C_DOT, C_UE, C_1}

ScanInputs ==
    UNION { Strs(A, MaxLen) : A \in Alphabets } \cup Strs(NumAlphabet, MaxLen)

(***************************************************************************)
(* Scanner specification: the file is read, then tok_next is called        *)
(* again and again                                                         *)
(***************************************************************************)
ScanIdle ==
    /\ content_orig = << C_NUL >>
    /\ content = << C_NUL >>
    /\ lex_string = 0
    /\ lex_cur = C_NUL
    /\ lex_end = 0
    /\ tok_type = T_EOF
    /\ tok_string = 0
    /\ err_msg = << >>
    /\ hung = FALSE
    /\ delivered = << >>

WsIdle == ws_s = << >> /\ ws_t = << >>

DrvIdle ==
    /\ dpc = "idle"
    /\ opt = [no_csg |-> FALSE, no_tri |-> FALSE, no_diff |-> FALSE,
              dump_csg2 |-> FALSE, dump_stl |-> FALSE, dump_js |-> FALSE,
              dump_ps |-> FALSE]
    /\ zi_count = 1
    /\ zi = 0
    /\ cur_i = -1
    /\ pool = << >>
    /\ trace = << >>
    /\ calls = << >>
    /\ derr = << >>
    /\ do_ret = "none"
    /\ emitted = "none"

WkIdle ==
    /\ wk_n = 0
    /\ wk_pass = 0
    /\ wk_pc = << >>
    /\ wk_i = << >>
    /\ wk_pool = << >>
    /\ wk_fails = {}
    /\ wk_calls = {}
    /\ wk_hist = << >>
    /\ wk_tree = << >>

ZrIdle ==
    /\ zr_pc = "idle"
    /\ zr_tree = {}
    /\ zr_opt = << >>
    /\ zr_full_bb = << >>
    /\ zr_bb = << >>
    /\ zr_z_min = 0
    /\ zr_z_max = 0
    /\ zr_range = << >>

LnIdle ==
    /\ ln_pc = "idle"
    /\ ln_file = << >>
    /\ ln_line = << >>
    /\ ln_token = -1
    /\ ln_loc = << >>
    /\ ln_ret = "none"

MnIdle ==
    /\ mn_pc = "idle"
    /\ mn_opt = << >>
    /\ mn_in = "null"
    /\ mn_fails = {}
    /\ mn_fout = "null"
    /\ mn_fin = "null"
    /\ mn_pool = "none"
    /\ mn_log = << >>
    /\ mn_ok = "none"
    /\ mn_msg = << >>
    /\ mn_stderr = << >>
    /\ mn_status = -1

LxIdle ==
    /\ lx_pc = "idle"
    /\ lx_prev = C_NUL
    /\ lx_rd = {}
    /\ lx_wr = {}
    /\ lx_from = [type |-> T_EOF, at |-> 0]

ExtIdle == WkIdle /\ ZrIdle /\ LnIdle /\ MnIdle /\ LxIdle

ParseIdle ==
    /\ pc = "idle"
    /\ ok = FALSE
    /\ ret = FALSE
    /\ toplevel = << >>
    /\ err_loc = NULL

\* the state of the scanner right after cp_scad_read_file read content s
FileRead(s) ==
    LET q == read_file(s) IN
    /\ content_orig = Append(s, C_NUL)
    /\ content = q.content
    /\ lex_string = q.lex_string
    /\ lex_cur = q.lex_cur
    /\ lex_end = q.lex_end
    /\ tok_type = q.tok_type
    /\ tok_string = q.tok_string
    /\ err_msg = q.err_msg
    /\ hung = FALSE
    /\ delivered = << >>

InitScan == \E s \in ScanInputs : FileRead(s)

\* one call of tok_next; a call that never returns leaves the caller hung
TokNext ==
    /\ ~hung
    /\ Len(delivered) < MaxCalls
    /\ \E q \in {tok_next(P)} :
       /\ SetP(q)
       /\ delivered' =
            IF q.hung THEN delivered
            ELSE Append(delivered,
                        [type |-> q.tok_type, string |-> q.tok_string,
                         end |-> q.lex_string])
    /\ UNCHANGED <<content_orig, parse_vars, ws_vars, drv_vars, ext_vars>>

vars == <<scan_vars, parse_vars, ws_vars, drv_vars, ext_vars>>

Init == InitScan /\ ParseIdle /\ WsIdle /\ DrvIdle /\ ExtIdle

Next == TokNext

Spec == Init /\ [][Next]_vars

(***************************************************************************)
(* Parser specification: cp_syn_parse on one file, syn.c:783-823           *)
(***************************************************************************)
\* the token texts xs, each followed by a space
RECURSIVE Join(_)
Join(xs) ==
    IF xs = << >> THEN << >> ELSE Head(xs) \o << C_SP >> \o Join(Tail(xs))

\* xs with its n-th atom (a token << C_0 >>) replaced by the digit n
RECURSIVE Numbered(_, _)
Numbered(xs, n) ==
    IF xs = << >> THEN << >>
    ELSE IF Head(xs) = << C_0 >>
         THEN << << C_0 + n >> >> \o Numbered(Tail(xs), n + 1)
         ELSE << Head(xs) >> \o Numbered(Tail(xs), n)

\* f ( [ followed by up to MaxValToks tokens of a bracketed value, then ) ;
\* the atoms of the value are the integers 1, 2, ... in source order
ValueVocab ==
    { << C_LBRACK >>, << C_RBRACK >>, << C_COLON >>, << C_COMMA >>, << C_0 >> }

ValueInputs ==
    { Join(<< << C_f >>, << C_LPAR >>, << C_LBRACK >> >> \o Numbered(x, 1)
           \o << << C_RPAR >>, << C_SEMI >> >>) :
        x \in Strs(ValueVocab, MaxValToks) }

\* up to MaxFormToks tokens of forms
FormVocab ==
    { << C_EXCL >>, << C_HASH >>, << C_LBRACE >>, << C_RBRACE >>,
      << C_a, C_LPAR, C_RPAR >>, << C_SEMI >> }

FormInputs == { Join(x) : x \in Strs(FormVocab, MaxFormToks) }

\* up to MaxMods modifiers in front of the call a() ;
ModVocab == { << C_EXCL >>, << C_AST >>, << C_PCT >>, << C_HASH >> }

ModInputs ==
    { Join(m \o << << C_a, C_LPAR, C_RPAR >>, << C_SEMI >> >>) :
        m \in Strs(ModVocab, MaxMods) }

ParseInputs == ScanInputs \cup ValueInputs \cup FormInputs \cup ModInputs

InitParse ==
    /\ \E s \in ParseInputs : FileRead(s)
    /\ pc = "read"
    /\ ok = FALSE
    /\ ret = FALSE
    /\ toplevel = << >>
    /\ err_loc = NULL
    /\ WsIdle
    /\ ExtIdle
    /\ DrvIdle

\* scan first token, syn.c:804
ParseFirstToken ==
    /\ pc = "read"
    /\ \E q \in {tok_next(P)} :
       /\ SetP(q)
       /\ pc' = IF q.hung THEN pc ELSE "scanned"
    /\ UNCHANGED <<content_orig, delivered, ok, ret, toplevel, err_loc, ws_vars,
                   drv_vars, ext_vars>>

\* bool ok = parse_body(p, &r->toplevel), syn.c:806
ParseToplevel ==
    /\ pc = "scanned"
    /\ \E b \in {parse_body(P, toplevel)} :
       /\ SetP(b.p)
       /\ pc' = IF b.p.hung THEN pc ELSE "parsed"
       /\ ok' = IF b.p.hung THEN ok ELSE b.ok
       /\ toplevel' = IF b.p.hung THEN toplevel ELSE b.r
    /\ UNCHANGED <<content_orig, delivered, ret, err_loc, ws_vars, drv_vars,
                   ext_vars>>

\* the checks after parse_body and the return, syn.c:807-822
ParseReturn ==
    /\ pc = "parsed"
    /\ pc' = "done"
    /\ IF ~ok
       THEN /\ err_loc' = IF err_loc = NULL THEN tok_string ELSE err_loc
            /\ err_msg' = IF ~have_err_msg(P)
                          THEN cp_vchar_printf(P, "Parse error.\n", << >>, "").err_msg
                          ELSE err_msg
            /\ ret' = FALSE
       ELSE IF tok_type # T_EOF
       THEN /\ err_loc' = tok_string
            /\ err_msg' = cp_vchar_printf(
                              P, "Operator or object functor expected.\n",
                              << >>, "").err_msg
            /\ ret' = FALSE
       ELSE /\ ret' = TRUE
            /\ UNCHANGED <<err_loc, err_msg>>
    /\ UNCHANGED <<content_orig, content, lex_cur, lex_string, lex_end,
                   tok_type, tok_string, hung, delivered, ok, toplevel, ws_vars,
                   drv_vars, ext_vars>>

NextParse == ParseFirstToken \/ ParseToplevel \/ ParseReturn

SpecParse == InitParse /\ [][NextParse]_vars

\* variant: next_i delivers the index before the one it allocated
next_i_stale(ip, i_alloc, i_count) ==
    [ret |-> i_alloc < i_count,
     ip |-> IF i_alloc < i_count
            THEN (IF i_alloc > 0 THEN i_alloc - 1 ELSE i_alloc)
            ELSE ip,
     i_alloc |-> i_alloc + 1]

(***************************************************************************)
(* Layer driver, main.c:44-116 and 213-266                                 *)
(***************************************************************************)
\* variant: the bound of the index is inclusive
next_i_inclusive(ip, i_alloc, i_count) ==
    [ret |-> i_alloc <= i_count,
     ip |-> IF i_alloc <= i_count THEN i_alloc ELSE ip,
     i_alloc |-> i_alloc + 1]

\* next_i(&i, &zi, count): the returned bool, *ip and *i_alloc afterwards
\* (size_t does not wrap within the bounds of the model)
next_i(ip, i_alloc, i_count) ==
    [ret |-> i_alloc < i_count,
     ip |-> IF i_alloc < i_count THEN i_alloc ELSE ip,
     i_alloc |-> i_alloc + 1]

\* one call made on layer k: its name, the tree it writes, its result
Ev(op, tree, k, rv) == [op |-> op, tree |-> tree, i |-> k, ok |-> rv]

\* cp_csg2_tree_t *csg2_out = opt->no_csg ? csg2 : csg2b, main.c:213
csg2_out == IF opt.no_csg THEN "csg2" ELSE "csg2b"

\* variant: do_file starts the second pass whenever dump_js is set
do_file_after_csg_js(rv) ==
    IF ~rv THEN "fail"
    ELSE IF opt.dump_js THEN "diff"
    ELSE "print"

\* variant: do_file goes on after process_stack_csg failed
do_file_after_csg_ignore(rv) ==
    IF opt.dump_js /\ ~opt.no_diff THEN "diff" ELSE "print"

\* do_file from the return of process_stack_csg on, main.c:215-227
do_file_after_csg(rv) ==
    IF ~rv THEN "fail"
    ELSE IF opt.dump_js /\ ~opt.no_diff THEN "diff"
    ELSE "print"

\* do_file from the return of process_stack_diff on, main.c:223-229
do_file_after_diff(rv) == IF ~rv THEN "fail" ELSE "print"

\* process_stack_csg after cp_csg2_tree_add_layer, main.c:76-86
csg_after_add(rv) ==
    IF ~rv THEN do_file_after_csg(FALSE)
    ELSE IF ~opt.no_csg THEN "csg_op"
    ELSE IF ~opt.no_tri THEN "csg_tri"
    ELSE "csg_next"

\* variant: the loop goes on to the next layer right after the reduction
csg_after_op_skip == "csg_next"

\* process_stack_csg after cp_csg2_op_add_layer, main.c:82-87
csg_after_op == IF ~opt.no_tri THEN "csg_tri" ELSE "csg_next"

\* variant: the loop goes on after a failed triangulation
csg_after_tri_ignore(rv) == "csg_next"

\* process_stack_csg after cp_csg2_tri_layer, main.c:83-87
csg_after_tri(rv) == IF ~rv THEN do_file_after_csg(FALSE) ELSE "csg_next"

\* variant: the loop goes on to the next layer right after the difference
diff_after_op_skip == "diff_next"

\* process_stack_diff after cp_csg2_op_diff_layer, main.c:108-114
diff_after_op == IF ~opt.no_tri THEN "diff_tri" ELSE "diff_next"

\* process_stack_diff after cp_csg2_tri_layer_diff, main.c:110-114
diff_after_tri(rv) == IF ~rv THEN do_file_after_diff(FALSE) ELSE "diff_next"

\* the emitter do_file calls, main.c:230-265
emitter ==
    IF opt.dump_csg2 THEN "scad"
    ELSE IF opt.dump_stl THEN "stl"
    ELSE IF opt.dump_js THEN "js"
    ELSE IF opt.dump_ps THEN "ps"
    ELSE "none"

Opts ==
    [no_csg : BOOLEAN, no_tri : BOOLEAN, no_diff : BOOLEAN,
     dump_csg2 : BOOLEAN, dump_stl : BOOLEAN, dump_js : BOOLEAN,
     dump_ps : BOOLEAN]

\* do_file at main.c:214: the layer count is at least 1 (main.c:196-198)
InitDrv ==
    /\ ScanIdle
    /\ ParseIdle
    /\ WsIdle
    /\ ExtIdle
    /\ dpc = "csg_next"
    /\ opt \in Opts
    /\ zi_count \in 1 .. MaxCount
    /\ zi = 0
    /\ cur_i = -1
    /\ pool = << >>
    /\ trace = << >>
    /\ calls = << >>
    /\ derr = << >>
    /\ do_ret = "none"
    /\ emitted = "none"

DrvFrame ==
    UNCHANGED <<scan_vars, parse_vars, ws_vars, ext_vars, opt, zi_count>>

\* while (next_i(&i, zi_p, zi_count)) of process_stack_csg, main.c:74
CsgNextI ==
    /\ dpc = "csg_next"
    /\ LET n == next_i(cur_i, zi, zi_count) IN
       /\ zi' = n.i_alloc
       /\ cur_i' = n.ip
       /\ calls' = Append(calls, [ret |-> n.ret, i |-> n.ip])
       /\ dpc' = IF n.ret THEN "csg_clear" ELSE do_file_after_csg(TRUE)
    /\ UNCHANGED <<pool, trace, derr, do_ret, emitted>>
    /\ DrvFrame

\* cp_pool_clear(pool), main.c:75
CsgPoolClear ==
    /\ dpc = "csg_clear"
    /\ pool' = << >>
    /\ trace' = Append(trace, Ev("pool_clear", "pool", cur_i, TRUE))
    /\ dpc' = "csg_add"
    /\ UNCHANGED <<zi, cur_i, calls, derr, do_ret, emitted>>
    /\ DrvFrame

\* cp_csg2_tree_add_layer(pool, csg2, err, i), main.c:76-78; the slicer
\* may fail
CsgAddLayer ==
    /\ dpc = "csg_add"
    /\ \E rv \in BOOLEAN :
        /\ trace' = Append(trace, Ev("add_layer", "csg2", cur_i, rv))
        /\ pool' = Append(pool, cur_i)
        /\ derr' = IF rv THEN derr ELSE << Ev("add_layer", "csg2", cur_i, rv) >>
        /\ dpc' = csg_after_add(rv)
    /\ UNCHANGED <<zi, cur_i, calls, do_ret, emitted>>
    /\ DrvFrame

\* cp_csg2_op_add_layer(&opt->csg, pool, csg2b, csg2, i), main.c:79-81
CsgOpAddLayer ==
    /\ dpc = "csg_op"
    /\ trace' = Append(trace, Ev("op_add_layer", "csg2b", cur_i, TRUE))
    /\ pool' = Append(pool, cur_i)
    /\ dpc' = csg_after_op
    /\ UNCHANGED <<zi, cur_i, calls, derr, do_ret, emitted>>
    /\ DrvFrame

\* cp_csg2_tri_layer(pool, err, csg2_out, i), main.c:82-86; the
\* triangulator may fail
CsgTriLayer ==
    /\ dpc = "csg_tri"
    /\ \E rv \in BOOLEAN :
        /\ trace' = Append(trace, Ev("tri_layer", csg2_out, cur_i, rv))
        /\ pool' = Append(pool, cur_i)
        /\ derr' = IF rv THEN derr ELSE << Ev("tri_layer", csg2_out, cur_i, rv) >>
        /\ dpc' = csg_after_tri(rv)
    /\ UNCHANGED <<zi, cur_i, calls, do_ret, emitted>>
    /\ DrvFrame

\* zi = 0 and the call of process_stack_diff, main.c:222-223
DoFileStartDiff ==
    /\ dpc = "diff"
    /\ zi' = 0
    /\ calls' = << >>
    /\ dpc' = "diff_next"
    /\ UNCHANGED <<cur_i, pool, trace, derr, do_ret, emitted>>
    /\ DrvFrame

\* while (next_i(&i, zi_p, zi_count)) of process_stack_diff, main.c:106
DiffNextI ==
    /\ dpc = "diff_next"
    /\ LET n == next_i(cur_i, zi, zi_count) IN
       /\ zi' = n.i_alloc
       /\ cur_i' = n.ip
       /\ calls' = Append(calls, [ret |-> n.ret, i |-> n.ip])
       /\ dpc' = IF n.ret THEN "diff_clear" ELSE do_file_after_diff(TRUE)
    /\ UNCHANGED <<pool, trace, derr, do_ret, emitted>>
    /\ DrvFrame

\* cp_pool_clear(pool), main.c:107
DiffPoolClear ==
    /\ dpc = "diff_clear"
    /\ pool' = << >>
    /\ trace' = Append(trace, Ev("pool_clear", "pool", cur_i, TRUE))
    /\ dpc' = "diff_op"
    /\ UNCHANGED <<zi, cur_i, calls, derr, do_ret, emitted>>
    /\ DrvFrame

\* cp_csg2_op_diff_layer(&opt->csg, pool, csg2_out, i), main.c:108
DiffOpDiffLayer ==
    /\ dpc = "diff_op"
    /\ trace' = Append(trace, Ev("op_diff_layer", csg2_out, cur_i, TRUE))
    /\ pool' = Append(pool, cur_i)
    /\ dpc' = diff_after_op
    /\ UNCHANGED <<zi, cur_i, calls, derr, do_ret, emitted>>
    /\ DrvFrame

\* cp_csg2_tri_layer_diff(pool, err, csg2_out, i), main.c:109-113; the
\* triangulator may fail
DiffTriLayerDiff ==
    /\ dpc = "diff_tri"
    /\ \E rv \in BOOLEAN :
        /\ trace' = Append(trace, Ev("tri_layer_diff", csg2_out, cur_i, rv))
        /\ pool' = Append(pool, cur_i)
        /\ derr' = IF rv THEN derr
                   ELSE << Ev("tri_layer_diff", csg2_out, cur_i, rv) >>
        /\ dpc' = diff_after_tri(rv)
    /\ UNCHANGED <<zi, cur_i, calls, do_ret, emitted>>
    /\ DrvFrame

\* return false of do_file, main.c:216 and 224
DoFileFail ==
    /\ dpc = "fail"
    /\ do_ret' = "false"
    /\ dpc' = "done"
    /\ UNCHANGED <<zi, cur_i, pool, trace, calls, derr, emitted>>
    /\ DrvFrame

\* print, main.c:229-265
DoFilePrint ==
    /\ dpc = "print"
    /\ emitted' = emitter
    /\ do_ret' = "true"
    /\ dpc' = "done"
    /\ UNCHANGED <<zi, cur_i, pool, trace, calls, derr>>
    /\ DrvFrame

NextDrv ==
    \/ CsgNextI \/ CsgPoolClear \/ CsgAddLayer \/ CsgOpAddLayer \/ CsgTriLayer
    \/ DoFileStartDiff
    \/ DiffNextI \/ DiffPoolClear \/ DiffOpDiffLayer \/ DiffTriLayerDiff
    \/ DoFileFail \/ DoFilePrint

SpecDrv == InitDrv /\ [][NextDrv]_vars

(***************************************************************************)
(* next_i on its own: one pass over a counter that starts at 0, with       *)
(* further calls after the pass is over                                    *)
(***************************************************************************)
InitNextI ==
    /\ ScanIdle
    /\ ParseIdle
    /\ WsIdle
    /\ ExtIdle
    /\ dpc = "next_i"
    /\ opt = [no_csg |-> FALSE, no_tri |-> FALSE, no_diff |-> FALSE,
              dump_csg2 |-> FALSE, dump_stl |-> FALSE, dump_js |-> FALSE,
              dump_ps |-> FALSE]
    /\ zi_count \in 0 .. NextIMaxCount
    /\ zi = 0
    /\ cur_i = -1
    /\ pool = << >>
    /\ trace = << >>
    /\ calls = << >>
    /\ derr = << >>
    /\ do_ret = "none"
    /\ emitted = "none"

CallNextI ==
    /\ dpc = "next_i"
    /\ Len(calls) < zi_count + ExtraCalls
    /\ LET n == next_i(cur_i, zi, zi_count) IN
       /\ zi' = n.i_alloc
       /\ cur_i' = n.ip
       /\ calls' = Append(calls, [ret |-> n.ret, i |-> n.ip])
    /\ UNCHANGED <<dpc, pool, trace, derr, do_ret, emitted>>
    /\ DrvFrame

NextNextI == CallNextI

SpecNextI == InitNextI /\ [][NextNextI]_vars

(***************************************************************************)
(* The whole scan of a file content                                        *)
(***************************************************************************)
LexemeKinds == {T_ID, T_INT, T_FLOAT, T_STRING}

\* what the parser sees of the current token: its kind and lexeme text
TokOf(q) ==
    [type |-> q.tok_type,
     text |-> IF q.tok_type \in LexemeKinds
              THEN CStr(q.content, q.tok_string)
              ELSE << >>]

\* marks a call of tok_next that never returns
HangTok == [type |-> -1, text |-> << >>]

\* the tokens tok_next delivers, up to end of input, an error or a hang
RECURSIVE ScanRun(_)
ScanRun(p) ==
    LET q == tok_next(p)
    IN  IF q.hung THEN << HangTok >>
        ELSE IF q.tok_type \in {T_EOF, T_ERROR} THEN << TokOf(q) >>
        ELSE << TokOf(q) >> \o ScanRun(q)

ScanAll(s) == ScanRun(read_file(s))

\* the scanner at the end of that run
RECURSIVE ScanFinal(_)
ScanFinal(p) ==
    LET q == tok_next(p)
    IN  IF q.hung \/ q.tok_type \in {T_EOF, T_ERROR} THEN q ELSE ScanFinal(q)

\* the offsets at which the tokens of the low-level scanner begin
\* (comments included), the last one being the end of input or the error
RECURSIVE RawBegins(_)
RawBegins(p) ==
    LET s == skip_space(p)
        q == tok_next_aux2(p)
    IN  {s.lex_string} \cup
        (IF q.hung \/ q.tok_type \in {T_EOF, T_ERROR} THEN {} ELSE RawBegins(q))

InsertAt(s, k, c) == SubSeq(s, 1, k) \o << c >> \o SubSeq(s, k + 1, Len(s))

SpaceBytes == {C_SP, C_TAB, C_CR, C_LF}

(***************************************************************************)
(* The passes run by several threads, main.c:57-62 and 91-96: every thread *)
(* runs process_stack_csg, then process_stack_diff, with a pool of its own *)
(* on the shared counter zi, and next_i is one atomic step.  do_file       *)
(* goes on when all threads of a pass have returned.                       *)
(***************************************************************************)
Tok(f, k) == [f |-> f, i |-> k]

EmptyLayer ==
    [poly |-> << >>, tri |-> << >>, diff |-> << >>, tri_diff |-> << >>]

\* what a layer function reads of layer k of tree out: its polygons, and
\* nothing outside the stack
LayerPoly(tree, out, k) ==
    IF k \in DOMAIN tree[out] THEN tree[out][k].poly ELSE << >>

\* the slicer populates layer k of csg2
cp_csg2_tree_add_layer(tree, k) ==
    [tree EXCEPT !["csg2"][k].poly = << Tok("slice", k) >>]

\* the reduction collapses layer k of csg2 into a polygon set on csg2b
cp_csg2_op_add_layer(tree, k) ==
    [tree EXCEPT !["csg2b"][k].poly =
        << Tok("add", k) >> \o tree["csg2"][k].poly]

\* the triangulation of the polygons of layer k of tree out
cp_csg2_tri_layer(tree, out, k) ==
    [tree EXCEPT ![out][k].tri = << Tok("tri", k) >> \o tree[out][k].poly]

\* the XOR of layer k of tree out with its neighbours, stored on the layer
cp_csg2_op_diff_layer(tree, out, k) ==
    [tree EXCEPT ![out][k].diff =
        << Tok("xor", k) >> \o LayerPoly(tree, out, k - 1)
        \o << Tok("with", k) >> \o tree[out][k].poly
        \o << Tok("with", k) >> \o LayerPoly(tree, out, k + 1)]

\* the triangulation of the difference of layer k of tree out
cp_csg2_tri_layer_diff(tree, out, k) ==
    [tree EXCEPT ![out][k].tri_diff =
        << Tok("tri_diff", k) >> \o tree[out][k].diff]

\* process_stack_csg run by one thread from index k on, main.c:63-89: the
\* value returned and the trees it leaves
RECURSIVE process_stack_csg(_, _)
process_stack_csg(tree, k) ==
    IF ~(k < zi_count) THEN [ok |-> TRUE, tree |-> tree]
    ELSE IF <<"add_layer", k>> \in wk_fails THEN [ok |-> FALSE, tree |-> tree]
    ELSE LET t1 == cp_csg2_tree_add_layer(tree, k)
             t2 == IF ~opt.no_csg THEN cp_csg2_op_add_layer(t1, k) ELSE t1
         IN  IF ~opt.no_tri
             THEN IF <<"tri_layer", k>> \in wk_fails
                  THEN [ok |-> FALSE, tree |-> t2]
                  ELSE process_stack_csg(
                           cp_csg2_tri_layer(t2, csg2_out, k), k + 1)
             ELSE process_stack_csg(t2, k + 1)

\* process_stack_diff run by one thread from index k on, main.c:97-116
RECURSIVE process_stack_diff(_, _)
process_stack_diff(tree, k) ==
    IF ~(k < zi_count) THEN [ok |-> TRUE, tree |-> tree]
    ELSE LET t1 == cp_csg2_op_diff_layer(tree, csg2_out, k)
         IN  IF ~opt.no_tri
             THEN IF <<"tri_layer_diff", k>> \in wk_fails
                  THEN [ok |-> FALSE, tree |-> t1]
                  ELSE process_stack_diff(
                           cp_csg2_tri_layer_diff(t1, csg2_out, k), k + 1)
             ELSE process_stack_diff(t1, k + 1)

\* do_file from the first pass up to the print step, main.c:214-227, on
\* the trees given: whether it gets to print, and the trees it prints
do_file_passes(tree) ==
    LET a == process_stack_csg(tree, 0)
    IN  IF ~a.ok THEN a
        ELSE IF opt.dump_js /\ ~opt.no_diff
        THEN process_stack_diff(a.tree, 0)
        ELSE a

\* the calls that report failure; on one input no call fails, or one does
WkFailable == {"add_layer", "tri_layer", "tri_layer_diff"}

InitWorkers ==
    /\ ScanIdle
    /\ ParseIdle
    /\ WsIdle
    /\ ZrIdle
    /\ LnIdle
    /\ MnIdle
    /\ LxIdle
    /\ dpc = "threads"
    /\ opt \in {o \in Opts : ~o.no_diff /\ ~o.dump_csg2 /\ ~o.dump_stl
                                /\ ~o.dump_ps}
    /\ zi_count \in 1 .. WkMaxCount
    /\ zi = 0
    /\ cur_i = -1
    /\ pool = << >>
    /\ trace = << >>
    /\ calls = << >>
    /\ derr = << >>
    /\ do_ret = "none"
    /\ emitted = "none"
    /\ wk_n \in 1 .. MaxWorkers
    /\ wk_pass = 1
    /\ wk_pc = [w \in 1 .. wk_n |-> "csg_next"]
    /\ wk_i = [w \in 1 .. wk_n |-> -1]
    /\ wk_pool = [w \in 1 .. wk_n |-> << >>]
    /\ wk_fails \in {{}} \cup {{c} : c \in WkFailable \X (0 .. zi_count - 1)}
    /\ wk_calls = {}
    /\ wk_hist = [p \in 1 .. 2 |-> [k \in 0 .. zi_count - 1 |-> << >>]]
    /\ wk_tree = [t \in {"csg2", "csg2b"} |->
                     [k \in 0 .. zi_count - 1 |-> EmptyLayer]]

WkFrame ==
    UNCHANGED <<scan_vars, parse_vars, ws_vars, zr_vars, ln_vars, mn_vars,
                lx_vars, dpc, opt, zi_count, cur_i, pool, trace, calls, wk_n,
                wk_fails>>

\* the call op that thread w made on its layer, with its result
WkCall(w, op, rv) ==
    [wk_hist EXCEPT ![wk_pass][wk_i[w]] =
        Append(@, [w |-> w, op |-> op, ok |-> rv])]

\* the result of call op on the layer of thread w
WkResult(w, op) == <<op, wk_i[w]>> \notin wk_fails

\* while (next_i(&i, zi_p, zi_count)) of process_stack_csg, main.c:74
WkCsgNextI(w) ==
    /\ wk_pass = 1
    /\ wk_pc[w] = "csg_next"
    /\ \E n \in {next_i(wk_i[w], zi, zi_count)} :
       /\ zi' = n.i_alloc
       /\ wk_i' = [wk_i EXCEPT ![w] = n.ip]
       /\ wk_calls' = wk_calls \cup
                        {[w |-> w, pass |-> wk_pass, ret |-> n.ret,
                          i |-> n.ip, err |-> derr # << >>]}
       /\ wk_pc' = [wk_pc EXCEPT ![w] = IF n.ret THEN "csg_clear"
                                       ELSE do_file_after_csg(TRUE)]
    /\ UNCHANGED <<wk_pass, wk_pool, wk_hist, wk_tree, derr, do_ret, emitted>>
    /\ WkFrame

\* cp_pool_clear(pool), main.c:75
WkCsgPoolClear(w) ==
    /\ wk_pass = 1
    /\ wk_pc[w] = "csg_clear"
    /\ wk_pool' = [wk_pool EXCEPT ![w] = << >>]
    /\ wk_hist' = WkCall(w, "pool_clear", TRUE)
    /\ wk_pc' = [wk_pc EXCEPT ![w] = "csg_add"]
    /\ UNCHANGED <<zi, wk_pass, wk_i, wk_calls, wk_tree, derr, do_ret, emitted>>
    /\ WkFrame

\* cp_csg2_tree_add_layer(pool, csg2, err, i), main.c:76-78
WkCsgAddLayer(w) ==
    /\ wk_pass = 1
    /\ wk_pc[w] = "csg_add"
    /\ \E rv \in {WkResult(w, "add_layer")} :
        /\ wk_tree' = IF rv THEN cp_csg2_tree_add_layer(wk_tree, wk_i[w])
                      ELSE wk_tree
        /\ wk_hist' = WkCall(w, "add_layer", rv)
        /\ derr' = IF rv THEN derr
                   ELSE Append(derr, Ev("add_layer", "csg2", wk_i[w], rv))
        /\ wk_pc' = [wk_pc EXCEPT ![w] = csg_after_add(rv)]
    /\ wk_pool' = [wk_pool EXCEPT ![w] = Append(@, wk_i[w])]
    /\ UNCHANGED <<zi, wk_pass, wk_i, wk_calls, do_ret, emitted>>
    /\ WkFrame

\* cp_csg2_op_add_layer(&opt->csg, pool, csg2b, csg2, i), main.c:79-81
WkCsgOpAddLayer(w) ==
    /\ wk_pass = 1
    /\ wk_pc[w] = "csg_op"
    /\ wk_tree' = cp_csg2_op_add_layer(wk_tree, wk_i[w])
    /\ wk_hist' = WkCall(w, "op_add_layer", TRUE)
    /\ wk_pool' = [wk_pool EXCEPT ![w] = Append(@, wk_i[w])]
    /\ wk_pc' = [wk_pc EXCEPT ![w] = csg_after_op]
    /\ UNCHANGED <<zi, wk_pass, wk_i, wk_calls, derr, do_ret, emitted>>
    /\ WkFrame

\* cp_csg2_tri_layer(pool, err, csg2_out, i), main.c:82-86
WkCsgTriLayer(w) ==
    /\ wk_pass = 1
    /\ wk_pc[w] = "csg_tri"
    /\ \E rv \in {WkResult(w, "tri_layer")} :
        /\ wk_tree' = IF rv THEN cp_csg2_tri_layer(wk_tree, csg2_out, wk_i[w])
                      ELSE wk_tree
        /\ wk_hist' = WkCall(w, "tri_layer", rv)
        /\ derr' = IF rv THEN derr
                   ELSE Append(derr, Ev("tri_layer", csg2_out, wk_i[w], rv))
        /\ wk_pc' = [wk_pc EXCEPT ![w] = csg_after_tri(rv)]
    /\ wk_pool' = [wk_pool EXCEPT ![w] = Append(@, wk_i[w])]
    /\ UNCHANGED <<zi, wk_pass, wk_i, wk_calls, do_ret, emitted>>
    /\ WkFrame

\* every thread has returned from its pass
WkReturned == \A w \in 1 .. wk_n : wk_pc[w] \in {"fail", "diff", "print"}

\* zi = 0 and the start of process_stack_diff, main.c:220-223, after every
\* thread returned true from process_stack_csg
WkDoFileStartDiff ==
    /\ wk_pass = 1
    /\ \A w \in 1 .. wk_n : wk_pc[w] = "diff"
    /\ zi' = 0
    /\ wk_pass' = 2
    /\ wk_pc' = [w \in 1 .. wk_n |-> "diff_next"]
    /\ wk_i' = [w \in 1 .. wk_n |-> -1]
    /\ UNCHANGED <<wk_pool, wk_calls, wk_hist, wk_tree, derr, do_ret, emitted>>
    /\ WkFrame

\* while (next_i(&i, zi_p, zi_count)) of process_stack_diff, main.c:106
WkDiffNextI(w) ==
    /\ wk_pass = 2
    /\ wk_pc[w] = "diff_next"
    /\ \E n \in {next_i(wk_i[w], zi, zi_count)} :
       /\ zi' = n.i_alloc
       /\ wk_i' = [wk_i EXCEPT ![w] = n.ip]
       /\ wk_calls' = wk_calls \cup
                        {[w |-> w, pass |-> wk_pass, ret |-> n.ret,
                          i |-> n.ip, err |-> derr # << >>]}
       /\ wk_pc' = [wk_pc EXCEPT ![w] = IF n.ret THEN "diff_clear"
                                       ELSE do_file_after_diff(TRUE)]
    /\ UNCHANGED <<wk_pass, wk_pool, wk_hist, wk_tree, derr, do_ret, emitted>>
    /\ WkFrame

\* cp_pool_clear(pool), main.c:107
WkDiffPoolClear(w) ==
    /\ wk_pass = 2
    /\ wk_pc[w] = "diff_clear"
    /\ wk_pool' = [wk_pool EXCEPT ![w] = << >>]
    /\ wk_hist' = WkCall(w, "pool_clear", TRUE)
    /\ wk_pc' = [wk_pc EXCEPT ![w] = "diff_op"]
    /\ UNCHANGED <<zi, wk_pass, wk_i, wk_calls, wk_tree, derr, do_ret, emitted>>
    /\ WkFrame

\* cp_csg2_op_diff_layer(&opt->csg, pool, csg2_out, i), main.c:108
WkDiffOpDiffLayer(w) ==
    /\ wk_pass = 2
    /\ wk_pc[w] = "diff_op"
    /\ wk_tree' = cp_csg2_op_diff_layer(wk_tree, csg2_out, wk_i[w])
    /\ wk_hist' = WkCall(w, "op_diff_layer", TRUE)
    /\ wk_pool' = [wk_pool EXCEPT ![w] = Append(@, wk_i[w])]
    /\ wk_pc' = [wk_pc EXCEPT ![w] = diff_after_op]
    /\ UNCHANGED <<zi, wk_pass, wk_i, wk_calls, derr, do_ret, emitted>>
    /\ WkFrame

\* cp_csg2_tri_layer_diff(pool, err, csg2_out, i), main.c:109-113
WkDiffTriLayerDiff(w) ==
    /\ wk_pass = 2
    /\ wk_pc[w] = "diff_tri"
    /\ \E rv \in {WkResult(w, "tri_layer_diff")} :
        /\ wk_tree' = IF rv
                      THEN cp_csg2_tri_layer_diff(wk_tree, csg2_out, wk_i[w])
                      ELSE wk_tree
        /\ wk_hist' = WkCall(w, "tri_layer_diff", rv)
        /\ derr' = IF rv THEN derr
                   ELSE Append(derr,
                               Ev("tri_layer_diff", csg2_out, wk_i[w], rv))
        /\ wk_pc' = [wk_pc EXCEPT ![w] = diff_after_tri(rv)]
    /\ wk_pool' = [wk_pool EXCEPT ![w] = Append(@, wk_i[w])]
    /\ UNCHANGED <<zi, wk_pass, wk_i, wk_calls, do_ret, emitted>>
    /\ WkFrame

\* return false of do_file, main.c:216 and 224: a thread returned false
WkDoFileFail ==
    /\ wk_pass \in {1, 2}
    /\ WkReturned
    /\ \E w \in 1 .. wk_n : wk_pc[w] = "fail"
    /\ do_ret' = "false"
    /\ wk_pass' = 0
    /\ UNCHANGED <<zi, wk_pc, wk_i, wk_pool, wk_calls, wk_hist, wk_tree, derr,
                   emitted>>
    /\ WkFrame

\* print, main.c:229-265
WkDoFilePrint ==
    /\ wk_pass \in {1, 2}
    /\ \A w \in 1 .. wk_n : wk_pc[w] = "print"
    /\ emitted' = emitter
    /\ do_ret' = "true"
    /\ wk_pass' = 0
    /\ UNCHANGED <<zi, wk_pc, wk_i, wk_pool, wk_calls, wk_hist, wk_tree, derr>>
    /\ WkFrame

NextWorkers ==
    \/ \E w \in 1 .. wk_n : WkCsgNextI(w)
    \/ \E w \in 1 .. wk_n : WkCsgPoolClear(w)
    \/ \E w \in 1 .. wk_n : WkCsgAddLayer(w)
    \/ \E w \in 1 .. wk_n : WkCsgOpAddLayer(w)
    \/ \E w \in 1 .. wk_n : WkCsgTriLayer(w)
    \/ \E w \in 1 .. wk_n : WkDiffNextI(w)
    \/ \E w \in 1 .. wk_n : WkDiffPoolClear(w)
    \/ \E w \in 1 .. wk_n : WkDiffOpDiffLayer(w)
    \/ \E w \in 1 .. wk_n : WkDiffTriLayerDiff(w)
    \/ WkDoFileStartDiff
    \/ WkDoFileFail
    \/ WkDoFilePrint

SpecWorkers == InitWorkers /\ [][NextWorkers]_vars

(***************************************************************************)
(* Z range selection, main.c:155-198.  Coordinates are integers on a grid  *)
(* on which z_step is even, so that z_step/2 is on the grid.               *)
(***************************************************************************)
\* stands for the largest coordinate: above every z of the model
BigZ == 1000

\* CP_VEC3_MINMAX_EMPTY, the z part: the box that contains no point
CP_VEC3_MINMAX_EMPTY == [min |-> BigZ, max |-> -BigZ]

Min2(a, b) == IF a < b THEN a ELSE b
Max2(a, b) == IF a > b THEN a ELSE b

\* the leaves cp_csg3_tree_bb visits: all in max mode, otherwise those
\* that are not being subtracted
bb_leaves(tree, max) == {l \in tree : max \/ ~l.sub}

\* cp_csg3_tree_bb(&bb, csg3, max): bb updated by the leaves visited
RECURSIVE cp_csg3_tree_bb(_, _, _)
cp_csg3_tree_bb(bb, tree, max) ==
    IF bb_leaves(tree, max) = {} THEN bb
    ELSE LET l == CHOOSE x \in bb_leaves(tree, max) : TRUE
         IN  cp_csg3_tree_bb(
                 [min |-> Min2(bb.min, l.lo), max |-> Max2(bb.max, l.hi)],
                 tree \ {l}, max)

\* cp_range_init(&range, min, max, step): no layer when max is below min
cp_range_init(min, max, step) ==
    [min |-> min, step |-> step,
     cnt |-> IF max < min THEN 0 ELSE ((max - min) \div step) + 1]

\* variant: the layer count is left as cp_range_init computed it
range_cnt_keep(range) == range

\* if (range.cnt == 0) range.cnt = 1, main.c:196-198
range_cnt(range) == IF range.cnt = 0 THEN [range EXCEPT !.cnt = 1] ELSE range

\* variant: z_max is overridden only together with z_min
z_max_override_both(o, z) == IF o.have_z_min /\ o.have_z_max THEN o.z_max ELSE z

\* if (opt->have_z_min) z_min = opt->z_min, main.c:186-188
z_min_override(o, z) == IF o.have_z_min THEN o.z_min ELSE z

\* if (opt->have_z_max) z_max = opt->z_max, main.c:189-191
z_max_override(o, z) == IF o.have_z_max THEN o.z_max ELSE z

ZGrid == 0 .. ZMax

ZLeaves == {l \in [lo : ZGrid, hi : ZGrid, sub : BOOLEAN] : l.lo <= l.hi}

ZOpts ==
    [have_z_min : BOOLEAN, z_min : ZGrid, have_z_max : BOOLEAN, z_max : ZGrid,
     z_step : {2 * h : h \in 1 .. MaxHalfStep}]

\* do_file after stage 3, main.c:154
InitRange ==
    /\ ScanIdle
    /\ ParseIdle
    /\ WsIdle
    /\ DrvIdle
    /\ WkIdle
    /\ LnIdle
    /\ MnIdle
    /\ LxIdle
    /\ zr_pc = "bb"
    /\ zr_tree \in {t \in SUBSET ZLeaves : Cardinality(t) <= MaxLeaves}
    /\ zr_opt \in ZOpts
    /\ zr_full_bb = CP_VEC3_MINMAX_EMPTY
    /\ zr_bb = CP_VEC3_MINMAX_EMPTY
    /\ zr_z_min = 0
    /\ zr_z_max = 0
    /\ zr_range = << >>

ZrFrame ==
    UNCHANGED <<scan_vars, parse_vars, ws_vars, drv_vars, wk_vars, ln_vars,
                mn_vars, lx_vars, zr_tree, zr_opt>>

\* the two bounding boxes, main.c:155-181; csg3->root is NULL when the tree
\* is empty
ZrBoundingBox ==
    /\ zr_pc = "bb"
    /\ zr_full_bb' = IF zr_tree # {}
                     THEN cp_csg3_tree_bb(CP_VEC3_MINMAX_EMPTY, zr_tree, TRUE)
                     ELSE CP_VEC3_MINMAX_EMPTY
    /\ zr_bb' = cp_csg3_tree_bb(CP_VEC3_MINMAX_EMPTY, zr_tree, FALSE)
    /\ zr_pc' = "z"
    /\ UNCHANGED <<zr_z_min, zr_z_max, zr_range>>
    /\ ZrFrame

\* z_min and z_max, main.c:184-191
ZrSelect ==
    /\ zr_pc = "z"
    /\ zr_z_min' = z_min_override(zr_opt, zr_bb.min + zr_opt.z_step \div 2)
    /\ zr_z_max' = z_max_override(zr_opt, zr_bb.max)
    /\ zr_pc' = "range"
    /\ UNCHANGED <<zr_full_bb, zr_bb, zr_range>>
    /\ ZrFrame

\* the range, main.c:193-198
ZrRange ==
    /\ zr_pc = "range"
    /\ zr_range' = range_cnt(cp_range_init(zr_z_min, zr_z_max, zr_opt.z_step))
    /\ zr_pc' = "layers"
    /\ UNCHANGED <<zr_full_bb, zr_bb, zr_z_min, zr_z_max>>
    /\ ZrFrame

NextRange == ZrBoundingBox \/ ZrSelect \/ ZrRange

SpecRange == InitRange /\ [][NextRange]_vars

(***************************************************************************)
(* The line table and cp_syn_get_loc, syn.c:745-776 and 846-888.  The      *)
(* pointers of f->line, of loc->copy and of loc->orig are offsets into     *)
(* content and content_orig.                                               *)
(***************************************************************************)
\* the for loop of cp_scad_read_file from pointer i on, syn.c:747-751
RECURSIVE line_scan(_, _, _, _)
line_scan(buf, i, end, line) ==
    IF ~(i < end) THEN line
    ELSE line_scan(buf, i + 1, end,
                   IF At(buf, i) = C_LF THEN Append(line, i + 1) ELSE line)

\* variant: lex_end is pushed whatever the last entry is
line_last_push(line, end) == Append(line, end)

\* if (cp_v_last(&f->line) != p->lex_end) cp_v_push(...), syn.c:752-754
line_last(line, end) ==
    IF line[Len(line)] # end THEN Append(line, end) ELSE line

\* cut into lines for lookup, syn.c:745-754
file_lines(q) ==
    line_last(line_scan(q.content, q.lex_string, q.lex_end,
                        << q.lex_string >>),
              q.lex_end)

\* cmp_line(key, &line[k], end), syn.c:759-776; the assertion holds when
\* line[k] has a successor
cmp_line(key, line, k) ==
    IF key < line[k + 1] THEN -1
    ELSE IF key = line[k + 1] THEN 0
    ELSE IF key > line[k + 2] THEN 1
    ELSE 0

\* the result of cp_v_bsearch when no element compares equal
CP_SIZE_MAX == -1

\* a failed assertion of cmp_line
AssertFailed == CP_SIZE_MAX - 1

\* cp_v_bsearch(key, &f->line, cmp_line, end) on the elements a..b-1: the
\* indices a binary search can return, whichever element it probes
RECURSIVE cp_v_bsearch(_, _, _, _)
cp_v_bsearch(key, line, a, b) ==
    IF ~(a < b) THEN {CP_SIZE_MAX}
    ELSE UNION {
        IF key > line[pivot + 1] /\ ~(pivot + 1 < Len(line))
        THEN {AssertFailed}
        ELSE IF cmp_line(key, line, pivot) = 0 THEN {pivot}
        ELSE IF cmp_line(key, line, pivot) < 0
        THEN cp_v_bsearch(key, line, a, pivot)
        ELSE cp_v_bsearch(key, line, pivot + 1, b)
        : pivot \in a .. b - 1 }

\* CP_ZERO(loc); loc->loc = token, syn.c:851-852
loc_zero(token) ==
    [loc |-> token, file |-> NULL, line |-> 0, copy |-> NULL,
     copy_end |-> NULL, orig |-> NULL, orig_end |-> NULL]

\* *loc for line k of the first file, syn.c:865-883
loc_found(token, line, k) ==
    [loc |-> token, file |-> 0, line |-> k,
     copy |-> line[k + 1],
     copy_end |-> IF k + 1 < Len(line) THEN line[k + 2] ELSE line[k + 1],
     orig |-> line[k + 1],
     orig_end |-> line[k + 1]
                  + ((IF k + 1 < Len(line) THEN line[k + 2] ELSE line[k + 1])
                     - line[k + 1])]

\* cp_syn_get_loc(loc, tree, token) for a tree of one file with working
\* buffer buf: the results it can have, syn.c:846-888
cp_syn_get_loc(token, buf, line) ==
    IF token >= 0 /\ token < Len(buf)
    THEN { IF k \in 0 .. Len(line) - 1
           THEN [ret |-> "true", loc |-> loc_found(token, line, k)]
           ELSE [ret |-> "abort", loc |-> loc_zero(token)]
           : k \in cp_v_bsearch(token, line, 0, Len(line)) }
    ELSE { [ret |-> "false", loc |-> loc_zero(token)] }

LocInputs == Strs({C_LF, C_a, C_SEMI}, LocMaxLen)

\* cp_syn_parse before cp_scad_read_file, syn.c:789-798
InitLoc ==
    /\ ScanIdle
    /\ ParseIdle
    /\ WsIdle
    /\ DrvIdle
    /\ WkIdle
    /\ ZrIdle
    /\ MnIdle
    /\ LxIdle
    /\ ln_pc = "open"
    /\ ln_file \in LocInputs
    /\ ln_line = << >>
    /\ ln_token = NULL
    /\ ln_loc = << >>
    /\ ln_ret = "none"

\* cp_scad_read_file, syn.c:709-757
LnReadFile ==
    /\ ln_pc = "open"
    /\ \E q \in {read_file(ln_file)} :
       /\ SetP(q)
       /\ ln_line' = file_lines(q)
    /\ content_orig' = Append(ln_file, C_NUL)
    /\ ln_pc' = "read"
    /\ UNCHANGED <<delivered, parse_vars, ws_vars, drv_vars, wk_vars, zr_vars,
                   mn_vars, lx_vars, ln_file, ln_token, ln_loc, ln_ret>>

\* one call of tok_next on the file read
LnTokNext == ln_pc = "read" /\ TokNext

\* one call of cp_syn_get_loc, with a pointer into the buffer or outside
LnGetLoc ==
    /\ ln_pc = "read"
    /\ \E token \in -1 .. Len(content) :
        \E r \in cp_syn_get_loc(token, content, ln_line) :
            /\ ln_token' = token
            /\ ln_loc' = r.loc
            /\ ln_ret' = r.ret
    /\ UNCHANGED <<scan_vars, parse_vars, ws_vars, drv_vars, wk_vars, zr_vars,
                   mn_vars, lx_vars, ln_pc, ln_file, ln_line>>

NextLoc == LnReadFile \/ LnTokNext \/ LnGetLoc

SpecLoc == InitLoc /\ [][NextLoc]_vars

(***************************************************************************)
(* main from "output file:" on (main.c:582-650) and the stages of do_file  *)
(* (main.c:118-266).  Each stage of do_file is one step; the two layer     *)
(* passes, which SpecDrv runs call by call, are one call each here.        *)
(***************************************************************************)
\* ".stl", ".js", ".scad", ".csg", ".ps": main.c:595-607
SUFFIX_STL == <<46, 115, 116, 108>>
SUFFIX_JS == <<46, 106, 115>>
SUFFIX_SCAD == <<46, 115, 99, 97, 100>>
SUFFIX_CSG == <<46, 99, 115, 103>>
SUFFIX_PS == <<46, 112, 115>>

\* "Unknown failure.\n", main.c:640
UnknownFailure ==
    <<85, 110, 107, 110, 111, 119, 110, 32, 102, 97, 105, 108, 117, 114, 101,
      46, 10>>

\* opt.out_file_name == NULL, main.c:585
NoName == << -1 >>

\* variant: the needle is compared with the start of the haystack
has_prefix(haystack, needle) ==
    IF Len(haystack) < Len(needle) THEN FALSE
    ELSE SubSeq(haystack, 1, Len(needle)) = needle

\* has_suffix, main.c:505-515
has_suffix(haystack, needle) ==
    IF Len(haystack) < Len(needle) THEN FALSE
    ELSE SubSeq(haystack, Len(haystack) - Len(needle) + 1, Len(haystack))
             = needle

\* main.c:595-609: the flag the file name sets, "none" for the else branch
suffix_flag(name) ==
    IF has_suffix(name, SUFFIX_STL) THEN "dump_stl"
    ELSE IF has_suffix(name, SUFFIX_JS) THEN "dump_js"
    ELSE IF has_suffix(name, SUFFIX_SCAD) \/ has_suffix(name, SUFFIX_CSG)
         THEN "dump_csg2"
    ELSE IF has_suffix(name, SUFFIX_PS) THEN "dump_ps"
    ELSE "none"

\* main.c:596-608: opt.dump_... = true
set_flag(o, flag) ==
    [o EXCEPT !.dump_stl = @ \/ flag = "dump_stl",
              !.dump_js = @ \/ flag = "dump_js",
              !.dump_csg2 = @ \/ flag = "dump_csg2",
              !.dump_ps = @ \/ flag = "dump_ps"]

\* the print section of do_file, main.c:229-265: the emitter called
print_call(o) ==
    IF o.dump_csg2 THEN <<"cp_csg2_tree_put_scad">>
    ELSE IF o.dump_stl THEN <<"cp_csg2_tree_put_stl">>
    ELSE IF o.dump_js THEN <<"cp_csg2_tree_put_js">>
    ELSE IF o.dump_ps THEN <<"cp_csg2_tree_put_ps">>
    ELSE << >>

\* exit(i), main.c:281: the C library closes the streams that are open
exit_stream(f) == IF f = "open" THEN "closed" ELSE f

\* variant: the message is printed as the failed stage left it
err_msg_raw(msg) == msg

\* main.c:639-644: the message main prints
err_msg_final(msg) ==
    IF Len(msg) = 0 THEN UnknownFailure
    ELSE IF msg[Len(msg)] # C_LF THEN Append(msg, C_LF)
    ELSE msg

\* the options of the command line.  The option table opt.inc is not part
\* of the sources at hand: every --dump-... option is taken to set its
\* flag and have_dump.
DumpFlags ==
    {"dump_syn", "dump_scad", "dump_csg3", "dump_csg2", "dump_ps",
     "dump_stl", "dump_js"}

opt_parsed(D, nd, name) ==
    [dump_syn |-> "dump_syn" \in D, dump_scad |-> "dump_scad" \in D,
     dump_csg3 |-> "dump_csg3" \in D, dump_csg2 |-> "dump_csg2" \in D,
     dump_ps |-> "dump_ps" \in D, dump_stl |-> "dump_stl" \in D,
     dump_js |-> "dump_js" \in D, have_dump |-> D # {},
     no_diff |-> nd, out_file_name |-> name]

\* file names: a stem followed by an ending
MnEndings ==
    {<< >>, SUFFIX_STL, SUFFIX_JS, SUFFIX_SCAD, SUFFIX_CSG, SUFFIX_PS,
     <<115, 116, 108>>, <<46, 115, 116>>}

MnNames ==
    {NoName} \cup
    {s \o e : s \in Strs({C_a, C_DOT}, MaxStem), e \in MnEndings}

\* the calls that can fail
MnFailable ==
    {"fopen_out", "fopen_in", "cp_syn_parse", "cp_scad_from_syn_tree",
     "cp_csg3_from_scad_tree", "process_stack_csg", "process_stack_diff"}

\* what a failed stage leaves in r->err.msg
MnMsgs == {<< >>, <<C_e>>, <<C_e, C_LF>>}

InitMain ==
    /\ ScanIdle
    /\ ParseIdle
    /\ WsIdle
    /\ DrvIdle
    /\ WkIdle
    /\ ZrIdle
    /\ LnIdle
    /\ LxIdle
    /\ mn_pc = "out"
    /\ mn_opt \in
         {opt_parsed(D, nd, name) :
            D \in {X \in SUBSET DumpFlags : Cardinality(X) <= MaxDumpFlags},
            nd \in BOOLEAN, name \in MnNames}
    /\ mn_in \in {"name", "null"}
    /\ mn_fails \in {{}} \cup {{c} : c \in MnFailable}
    /\ mn_fout = "null"
    /\ mn_fin = "null"
    /\ mn_pool = "none"
    /\ mn_log = << >>
    /\ mn_ok = "none"
    /\ mn_msg = << >>
    /\ mn_stderr = << >>
    /\ mn_status = -1

MnFrame ==
    UNCHANGED <<scan_vars, parse_vars, ws_vars, drv_vars, wk_vars, zr_vars,
                ln_vars, lx_vars, mn_in, mn_fails>>

\* my_exit(i) before do_file was called
MnExitEarly(i, what) ==
    /\ mn_stderr' = Append(mn_stderr, [kind |-> what, msg |-> << >>])
    /\ mn_status' = i
    /\ mn_pc' = "exited"
    /\ mn_fin' = exit_stream(mn_fin)
    /\ UNCHANGED <<mn_opt, mn_pool, mn_log, mn_ok, mn_msg>>

\* output file, main.c:583-616
MnOpenOut ==
    /\ mn_pc = "out"
    /\ IF mn_opt.out_file_name = NoName
       THEN /\ mn_pc' = "in"
            /\ UNCHANGED <<mn_opt, mn_fout, mn_fin, mn_pool, mn_log, mn_ok,
                           mn_msg, mn_stderr, mn_status>>
       ELSE IF "fopen_out" \in mn_fails
       THEN /\ MnExitEarly(1, "Unable to open for writing")
            /\ UNCHANGED mn_fout
       ELSE IF mn_opt.have_dump
       THEN /\ mn_fout' = "open"
            /\ mn_pc' = "in"
            /\ UNCHANGED <<mn_opt, mn_fin, mn_pool, mn_log, mn_ok, mn_msg,
                           mn_stderr, mn_status>>
       ELSE IF suffix_flag(mn_opt.out_file_name) = "none"
       THEN /\ MnExitEarly(1, "Unrecognised file ending")
            /\ mn_fout' = exit_stream("open")
       ELSE /\ mn_fout' = "open"
            /\ mn_opt' = set_flag(mn_opt, suffix_flag(mn_opt.out_file_name))
            /\ mn_pc' = "in"
            /\ UNCHANGED <<mn_fin, mn_pool, mn_log, mn_ok, mn_msg, mn_stderr,
                           mn_status>>
    /\ MnFrame

\* process files: fopen of the input, main.c:619-624.  Without an input
\* file on the command line in_file_name is NULL (main.c:538) and the call
\* fopen(NULL, "rt") is undefined: it returns NULL, or the process is killed
\* and never calls exit.
MnOpenIn ==
    /\ mn_pc = "in"
    /\ IF mn_in = "null"
       THEN \/ /\ MnExitEarly(1, "Unable to open for reading")
               /\ mn_fout' = exit_stream(mn_fout)
            \/ /\ mn_pc' = "killed"
               /\ UNCHANGED <<mn_opt, mn_fout, mn_fin, mn_pool, mn_log,
                              mn_ok, mn_msg, mn_stderr, mn_status>>
       ELSE IF "fopen_in" \in mn_fails
       THEN /\ MnExitEarly(1, "Unable to open for reading")
            /\ mn_fout' = exit_stream(mn_fout)
       ELSE /\ mn_fin' = "open"
            /\ mn_pc' = "syn"
            /\ UNCHANGED <<mn_opt, mn_fout, mn_pool, mn_log, mn_ok, mn_msg,
                           mn_stderr, mn_status>>
    /\ MnFrame

\* do_file returns b after the calls cs; a failed stage leaves msg
MnReturn(cs, b, msg) ==
    /\ mn_log' = mn_log \o cs
    /\ mn_ok' = b
    /\ mn_msg' = msg
    /\ mn_pc' = "close"

\* do_file goes on to the next stage after the calls cs
MnGoOn(cs, next) ==
    /\ mn_log' = mn_log \o cs
    /\ mn_pc' = next
    /\ UNCHANGED <<mn_ok, mn_msg>>

\* stage 1: syntax tree, main.c:125-132
MnStageSyn ==
    /\ mn_pc = "syn"
    /\ IF "cp_syn_parse" \in mn_fails
       THEN \E m \in MnMsgs : MnReturn(<<"cp_syn_parse">>, "false", m)
       ELSE IF mn_opt.dump_syn
       THEN MnReturn(<<"cp_syn_parse", "cp_syn_tree_put_scad">>, "true",
                     mn_msg)
       ELSE MnGoOn(<<"cp_syn_parse">>, "scad")
    /\ UNCHANGED <<mn_opt, mn_fout, mn_fin, mn_pool, mn_stderr, mn_status>>
    /\ MnFrame

\* variant: --dump-scad does not stop do_file after stage 2
MnStageScadGoesOn ==
    /\ mn_pc = "scad"
    /\ IF "cp_scad_from_syn_tree" \in mn_fails
       THEN \E m \in MnMsgs :
                MnReturn(<<"cp_scad_from_syn_tree">>, "false", m)
       ELSE IF mn_opt.dump_scad
       THEN MnGoOn(<<"cp_scad_from_syn_tree", "cp_scad_tree_put_scad">>,
                   "csg3")
       ELSE MnGoOn(<<"cp_scad_from_syn_tree">>, "csg3")
    /\ UNCHANGED <<mn_opt, mn_fout, mn_fin, mn_pool, mn_stderr, mn_status>>
    /\ MnFrame

\* stage 2: SCAD, main.c:134-142
MnStageScad ==
    /\ mn_pc = "scad"
    /\ IF "cp_scad_from_syn_tree" \in mn_fails
       THEN \E m \in MnMsgs :
                MnReturn(<<"cp_scad_from_syn_tree">>, "false", m)
       ELSE IF mn_opt.dump_scad
       THEN MnReturn(<<"cp_scad_from_syn_tree", "cp_scad_tree_put_scad">>,
                     "true", mn_msg)
       ELSE MnGoOn(<<"cp_scad_from_syn_tree">>, "csg3")
    /\ UNCHANGED <<mn_opt, mn_fout, mn_fin, mn_pool, mn_stderr, mn_status>>
    /\ MnFrame

\* pool for tmp objects and stage 3: 3D CSG, main.c:144-178
MnStageCsg3 ==
    /\ mn_pc = "csg3"
    /\ mn_pool' = "init"
    /\ IF "cp_csg3_from_scad_tree" \in mn_fails
       THEN \E m \in MnMsgs :
                MnReturn(<<"cp_csg3_from_scad_tree">>, "false", m)
       ELSE IF mn_opt.dump_csg3
       THEN MnReturn(<<"cp_csg3_from_scad_tree", "cp_csg3_tree_bb",
                       "cp_csg3_tree_put_scad">>, "true", mn_msg)
       ELSE MnGoOn(<<"cp_csg3_from_scad_tree", "cp_csg3_tree_bb">>, "csg2")
    /\ UNCHANGED <<mn_opt, mn_fout, mn_fin, mn_stderr, mn_status>>
    /\ MnFrame

\* stage 4: 2D CSG, the layer passes and print, main.c:180-265
MnStageCsg2 ==
    /\ mn_pc = "csg2"
    /\ \E pre \in {<<"cp_csg3_tree_bb", "cp_range_init",
                     "cp_csg2_tree_from_csg3", "cp_csg2_op_tree_init",
                     "process_stack_csg">>} :
       IF "process_stack_csg" \in mn_fails
       THEN \E m \in MnMsgs : MnReturn(pre, "false", m)
       ELSE IF mn_opt.dump_js /\ ~mn_opt.no_diff
       THEN IF "process_stack_diff" \in mn_fails
            THEN \E m \in MnMsgs :
                     MnReturn(Append(pre, "process_stack_diff"), "false", m)
            ELSE MnReturn(Append(pre, "process_stack_diff")
                              \o print_call(mn_opt), "true", mn_msg)
       ELSE MnReturn(pre \o print_call(mn_opt), "true", mn_msg)
    /\ UNCHANGED <<mn_opt, mn_fout, mn_fin, mn_pool, mn_stderr, mn_status>>
    /\ MnFrame

\* after do_file: fclose(fin), fclose(fout), main.c:628-632
MnClose ==
    /\ mn_pc = "close"
    /\ mn_fin' = "closed"
    /\ mn_fout' = IF mn_fout # "null" THEN "closed" ELSE mn_fout
    /\ mn_pc' = "report"
    /\ UNCHANGED <<mn_opt, mn_pool, mn_log, mn_ok, mn_msg, mn_stderr,
                   mn_status>>
    /\ MnFrame

\* print error and exit, main.c:634-649
MnReport ==
    /\ mn_pc = "report"
    /\ IF mn_ok = "false"
       THEN /\ mn_msg' = err_msg_final(mn_msg)
            /\ mn_stderr' = Append(mn_stderr,
                                   [kind |-> "Error", msg |-> mn_msg'])
            /\ mn_status' = 1
       ELSE /\ mn_status' = 0
            /\ UNCHANGED <<mn_msg, mn_stderr>>
    /\ mn_pc' = "exited"
    /\ mn_fin' = exit_stream(mn_fin)
    /\ mn_fout' = exit_stream(mn_fout)
    /\ UNCHANGED <<mn_opt, mn_pool, mn_log, mn_ok>>
    /\ MnFrame

NextMain ==
    \/ MnOpenOut \/ MnOpenIn \/ MnStageSyn \/ MnStageScad \/ MnStageCsg3
    \/ MnStageCsg2 \/ MnClose \/ MnReport

SpecMain == InitMain /\ [][NextMain]_vars

(***************************************************************************)
(* Scanner, step by step: tok_next (syn.c:238-243) and tok_next_aux2       *)
(* (syn.c:71-231) one statement at a time.  lx_pc is the statement that    *)
(* runs next; every step records in lx_rd and lx_wr the buffer offsets it  *)
(* read and wrote through a pointer.                                       *)
(***************************************************************************)
\* what a read outside the buffer can deliver
AnyByte == {C_NUL, C_SLASH, C_AST, C_QUOTE, C_a}

\* the values of *ptr for a pointer at offset k of buf: the byte there, or,
\* outside the buffer, whatever the memory holds
Deref(buf, k) ==
    IF k \in 0 .. Len(buf) - 1 THEN {At(buf, k)} ELSE AnyByte

\* the offsets lex_next(p) reads: none at the end of input, syn.c:44-48,
\* else the one after the cursor, syn.c:50-51
lex_next_reads(p) ==
    IF p.lex_string >= p.lex_end THEN {} ELSE {p.lex_string + 1}

\* the outcomes of lex_next(p); a read past the buffer delivers any byte
LexNext(p) ==
    IF lex_next_reads(p) \subseteq 0 .. Len(p.content) - 1
    THEN {lex_next(p)}
    ELSE {[p EXCEPT !.lex_string = p.lex_string + 1, !.lex_cur = c] :
            c \in AnyByte}

\* the file contents scanned step by step
LexAlphabets ==
    { {C_1, C_a, C_SEMI, C_SP},
      {C_QUOTE, C_BSLASH, C_a, C_SEMI},
      {C_SLASH, C_AST, C_LF, C_a},
      {C_PLUS, C_MINUS, C_DOT, C_e, C_1},
      {C_DOLLAR, C_a, C_LPAR, C_1},
      {C_NUL, C_a, C_SLASH, C_1} }

LexInputs == UNION { Strs(A, LexMaxLen) : A \in LexAlphabets }

\* right after cp_scad_read_file, before the first tok_next
InitLex ==
    /\ \E s \in LexInputs : FileRead(s)
    /\ ParseIdle
    /\ WsIdle
    /\ DrvIdle
    /\ ExtIdle

LxFrame ==
    UNCHANGED <<content_orig, hung, parse_vars, ws_vars, drv_vars, wk_vars,
                zr_vars, ln_vars, mn_vars>>

\* the scanner becomes q, control goes to statement at
LxSet(q, at, rd, wr) ==
    /\ SetP(q)
    /\ lx_pc' = at
    /\ lx_rd' = rd
    /\ lx_wr' = wr

\* inside tok_next_aux2: a step that touches no local and returns nothing
LxStep(q, at, rd, wr) ==
    /\ LxSet(q, at, rd, wr)
    /\ UNCHANGED <<lx_prev, lx_from, delivered>>
    /\ LxFrame

\* if (cond) lex_next(p), or one round of while (cond) lex_next(p)
LxAdvance(cond, p, yes, no) ==
    \/ /\ cond
       /\ \E q \in LexNext(p) : LxStep(q, yes, lex_next_reads(p), {})
    \/ /\ ~cond
       /\ LxStep(P, no, {}, {})

\* tok_next is called, syn.c:238-241
LxCall ==
    /\ lx_pc = "idle"
    /\ Len(delivered) < LexMaxCalls
    /\ lx_from' = [type |-> tok_type, at |-> lex_string]
    /\ LxSet(P, "guard", {}, {})
    /\ UNCHANGED <<lx_prev, delivered>>
    /\ LxFrame

\* do not scan beyond an error, syn.c:73-76
LxGuard ==
    /\ lx_pc = "guard"
    /\ LxStep(P, IF tok_type = T_ERROR THEN "while" ELSE "space", {}, {})

\* skip space, syn.c:78-81
LxSpace ==
    /\ lx_pc = "space"
    /\ is_space(lex_cur)
    /\ \E q \in LexNext(P) : LxStep(q, "space", lex_next_reads(P), {})

\* p->tok_string = p->lex_string and the tests on lex_cur alone,
\* syn.c:85-91, 141, 167
LxDispatch ==
    /\ lx_pc = "space"
    /\ ~is_space(lex_cur)
    /\ lex_cur # C_SLASH
    /\ LxStep(set_tok_string(P),
              IF (lex_cur = C_PLUS) \/ (lex_cur = C_MINUS) \/ (lex_cur = C_DOT)
                 \/ is_digit(lex_cur)
              THEN "num_nul"
              ELSE IF (lex_cur = C_DOLLAR) \/ (lex_cur = C_USCORE)
                      \/ is_alpha(lex_cur)
              THEN "id_nul"
              ELSE IF lex_cur = C_QUOTE THEN "str_open"
              ELSE "char",
              {}, {})

\* the tests that look one byte ahead, p->lex_string[1], syn.c:196-197 and
\* 206-207
LxLookahead ==
    /\ lx_pc = "space"
    /\ lex_cur = C_SLASH
    /\ \E c \in Deref(content, lex_string + 1) :
         \/ /\ c = C_SLASH
            /\ LxStep([set_tok_string(P) EXCEPT !.tok_type = T_LCOM], "lcom",
                      {lex_string + 1}, {})
         \/ /\ c = C_AST
            /\ LxStep([set_tok_string(P) EXCEPT !.tok_type = T_BCOM], "bcom1",
                      {lex_string + 1}, {})
         \/ /\ c \notin {C_SLASH, C_AST}
            /\ LxStep(set_tok_string(P), "char", {lex_string + 1}, {})

\* if (*p->lex_string == '\0') { error } p->tok_type = ..., syn.c:93-108
\* and 142-150
LxNulCheck ==
    /\ lx_pc \in {"num_nul", "id_nul"}
    /\ \E c \in Deref(content, lex_string) :
         \/ /\ c = C_NUL
            /\ LxStep(scan_error(P, IF lx_pc = "num_nul"
                                    THEN "Expected no number here.\n"
                                    ELSE "Expected no identifier here.\n"),
                      "while", {lex_string}, {})
         \/ /\ c # C_NUL
            /\ lx_pc = "num_nul"
            /\ LxStep([P EXCEPT !.tok_type = T_INT], "num_plus",
                      {lex_string}, {})
         \/ /\ c # C_NUL
            /\ lx_pc = "id_nul"
            /\ LxStep([P EXCEPT !.tok_type = T_ID], "id_dollar",
                      {lex_string}, {})

\* if (p->lex_cur == '+') { lex_next(p); p->tok_string = p->lex_string; },
\* syn.c:109-112
LxPlus ==
    /\ lx_pc = "num_plus"
    /\ \/ /\ lex_cur = C_PLUS
          /\ \E q \in LexNext(P) :
               LxStep(set_tok_string(q), "num_minus", lex_next_reads(P), {})
       \/ /\ lex_cur # C_PLUS
          /\ LxStep(P, "num_minus", {}, {})

\* the rest of the number, syn.c:113-135
LxNumber ==
    \/ /\ lx_pc = "num_minus"
       /\ LxAdvance(lex_cur = C_MINUS, P, "num_int", "num_int")
    \/ /\ lx_pc = "num_int"
       /\ LxAdvance(is_digit(lex_cur), P, "num_int", "num_dot")
    \/ /\ lx_pc = "num_dot"
       /\ LxAdvance(lex_cur = C_DOT, [P EXCEPT !.tok_type = T_FLOAT],
                    "num_frac", "num_e")
    \/ /\ lx_pc = "num_frac"
       /\ LxAdvance(is_digit(lex_cur), P, "num_frac", "num_e")
    \/ /\ lx_pc = "num_e"
       /\ LxAdvance((lex_cur = C_e) \/ (lex_cur = C_UE),
                    [P EXCEPT !.tok_type = T_FLOAT], "num_sign", "term")
    \/ /\ lx_pc = "num_sign"
       /\ LxAdvance((lex_cur = C_MINUS) \/ (lex_cur = C_PLUS), P,
                    "num_exp", "num_exp")
    \/ /\ lx_pc = "num_exp"
       /\ LxAdvance(is_digit(lex_cur), P, "num_exp", "term")

\* the identifier after its first test, syn.c:151-160
LxId ==
    \/ /\ lx_pc = "id_dollar"
       /\ LxAdvance(lex_cur = C_DOLLAR, P, "id_chars", "id_chars")
    \/ /\ lx_pc = "id_chars"
       /\ LxAdvance(is_idchar(lex_cur), P, "id_chars", "term")

\* *p->lex_string = '\0'; return, syn.c:136-137 and 162-163
LxTerminate ==
    /\ lx_pc = "term"
    /\ LxStep(put_nul(P), "while", {}, {lex_string})

\* *p->lex_string = '\0' on the opening quote, syn.c:168
LxStringOpen ==
    /\ lx_pc = "str_open"
    /\ LxStep(put_nul(P), "str_first", {}, {lex_string})

\* lex_next(p); p->tok_type = T_STRING; p->tok_string = p->lex_string,
\* syn.c:169-171
LxStringFirst ==
    /\ lx_pc = "str_first"
    /\ \E q \in LexNext(P) :
         LxStep(string_open(q), "str_loop", lex_next_reads(P), {})

\* while (*p->lex_string != '"') and if (*p->lex_string == '\\'),
\* syn.c:172-173
LxStringLoop ==
    /\ lx_pc = "str_loop"
    /\ \E c \in Deref(content, lex_string) :
         LxStep(P, IF c = C_QUOTE THEN "str_close"
                   ELSE IF c = C_BSLASH THEN "str_esc"
                   ELSE "str_adv",
                {lex_string}, {})

\* lex_next(p); if (*p->lex_string == '\0') { error }, syn.c:174-181
LxStringEscape ==
    /\ lx_pc = "str_esc"
    /\ \E q \in LexNext(P) :
         \E c \in Deref(q.content, q.lex_string) :
            \/ /\ c = C_NUL
               /\ LxStep(scan_error(q, "End of file inside string.\n"),
                         "while", lex_next_reads(P) \cup {q.lex_string}, {})
            \/ /\ c # C_NUL
               /\ LxStep(q, "str_adv",
                         lex_next_reads(P) \cup {q.lex_string}, {})

\* lex_next(p) at the end of the loop body, syn.c:183
LxStringAdvance ==
    /\ lx_pc = "str_adv"
    /\ \E q \in LexNext(P) : LxStep(q, "str_loop", lex_next_reads(P), {})

\* *p->lex_string = '\0' on the closing quote, syn.c:185
LxStringClose ==
    /\ lx_pc = "str_close"
    /\ LxStep(put_nul(P), "str_after", {}, {lex_string})

\* lex_next(p); return, syn.c:186-187
LxStringAfter ==
    /\ lx_pc = "str_after"
    /\ \E q \in LexNext(P) : LxStep(q, "while", lex_next_reads(P), {})

\* while ((p->lex_cur != '\n') && (p->lex_cur != '\0')) lex_next(p),
\* syn.c:198-202
LxLcom ==
    /\ lx_pc = "lcom"
    /\ LxAdvance((lex_cur # C_LF) /\ (lex_cur # C_NUL), P, "lcom", "while")

\* lex_next(p); lex_next(p); char prev = 0, syn.c:208-210
LxBcomOpen ==
    \/ /\ lx_pc = "bcom1"
       /\ \E q \in LexNext(P) : LxStep(q, "bcom2", lex_next_reads(P), {})
    \/ /\ lx_pc = "bcom2"
       /\ \E q \in LexNext(P) : LxSet(q, "bcom_loop", lex_next_reads(P), {})
       /\ lx_prev' = C_NUL
       /\ UNCHANGED <<lx_from, delivered>>
       /\ LxFrame

\* one round of the block comment loop, syn.c:211-221
LxBcomLoop ==
    /\ lx_pc = "bcom_loop"
    /\ \/ /\ (lx_prev # C_AST) \/ (lex_cur # C_SLASH)
          /\ lex_cur = C_NUL
          /\ LxStep(scan_error(P, "File ends inside comment.\n"),
                    "bcom_end", {}, {})
       \/ /\ (lx_prev # C_AST) \/ (lex_cur # C_SLASH)
          /\ lex_cur # C_NUL
          /\ \E q \in LexNext(P) :
               LxSet(q, "bcom_loop", lex_next_reads(P), {})
          /\ lx_prev' = lex_cur
          /\ UNCHANGED <<lx_from, delivered>>
          /\ LxFrame
       \/ /\ lx_prev = C_AST
          /\ lex_cur = C_SLASH
          /\ LxStep(P, "bcom_end", {}, {})

\* each final '/': lex_next(p); return, syn.c:222-224
LxBcomEnd ==
    /\ lx_pc = "bcom_end"
    /\ \E q \in LexNext(P) : LxStep(q, "while", lex_next_reads(P), {})

\* by default, read a single character, syn.c:227-230
LxChar ==
    /\ lx_pc = "char"
    /\ \E q \in LexNext([P EXCEPT !.tok_type = lex_cur % 128]) :
         LxStep(q, "while", lex_next_reads(P), {})

\* } while (is_comment(p->tok_type)), syn.c:242: once more, or tok_next
\* returns
LxWhile ==
    /\ lx_pc = "while"
    /\ \/ /\ is_comment(tok_type)
          /\ LxStep(P, "guard", {}, {})
       \/ /\ ~is_comment(tok_type)
          /\ LxSet(P, "idle", {}, {})
          /\ delivered' = Append(delivered,
                                 [type |-> tok_type, string |-> tok_string,
                                  end |-> lex_string])
          /\ UNCHANGED <<lx_prev, lx_from>>
          /\ LxFrame

NextLex ==
    \/ LxCall \/ LxGuard \/ LxSpace \/ LxDispatch \/ LxLookahead
    \/ LxNulCheck \/ LxPlus \/ LxNumber \/ LxId \/ LxTerminate
    \/ LxStringOpen \/ LxStringFirst \/ LxStringLoop \/ LxStringEscape
    \/ LxStringAdvance \/ LxStringClose \/ LxStringAfter
    \/ LxLcom \/ LxBcomOpen \/ LxBcomLoop \/ LxBcomEnd \/ LxChar \/ LxWhile

SpecLex == InitLex /\ [][NextLex]_vars

(***************************************************************************)
(* White-space specification: a file content and the same content with     *)
(* white space inserted where a token begins                               *)
(***************************************************************************)
WsInputs == UNION { Strs(A, WsMaxLen) : A \in Alphabets }

InitWs ==
    /\ ScanIdle
    /\ ParseIdle
    /\ DrvIdle
    /\ ExtIdle
    /\ \E s \in WsInputs : ws_s = s /\ ws_t = s

InsertSpace ==
    /\ Len(ws_t) < Len(ws_s) + MaxInsert
    /\ \E k \in RawBegins(read_file(ws_t)), c \in SpaceBytes :
          ws_t' = InsertAt(ws_t, k, c)
    /\ UNCHANGED <<ws_s, scan_vars, parse_vars, drv_vars, ext_vars>>

NextWs == InsertSpace

SpecWs == InitWs /\ [][NextWs]_vars

(***************************************************************************)
(* Lexemes as the grammar of the scanner defines them, read off the        *)
(* untouched content                                                       *)
(***************************************************************************)
DigitBytes == C_0 .. C_9
IdBytes == (C_a .. C_z) \cup (C_UA .. C_UZ) \cup DigitBytes \cup {C_USCORE}

\* end of the identifier that starts at offset k
IdEnd(buf, k) ==
    RunEnd(buf, IF At(buf, k) = C_DOLLAR THEN k + 1 ELSE k, IdBytes)

\* end of the number whose lexeme starts at offset k (after a dropped '+')
NumEnd(buf, k) ==
    LET a == IF At(buf, k) = C_MINUS THEN k + 1 ELSE k
        b == RunEnd(buf, a, DigitBytes)
        c == IF At(buf, b) = C_DOT THEN RunEnd(buf, b + 1, DigitBytes) ELSE b
        d == IF At(buf, c) \in {C_e, C_UE}
             THEN RunEnd(buf,
                         IF At(buf, c + 1) \in {C_PLUS, C_MINUS}
                         THEN c + 2 ELSE c + 1,
                         DigitBytes)
             ELSE c
    IN  d

\* offset of the closing quote of the string whose text starts at offset k,
\* or the end of the content when there is none
RECURSIVE StrEnd(_, _)
StrEnd(buf, k) ==
    IF k + 1 >= Len(buf) THEN Len(buf) - 1
    ELSE IF At(buf, k) = C_QUOTE THEN k
    ELSE IF At(buf, k) = C_BSLASH
         THEN (IF k + 2 >= Len(buf) THEN Len(buf) - 1 ELSE StrEnd(buf, k + 2))
    ELSE StrEnd(buf, k + 1)

\* the input ends inside the string whose text starts at offset k
Unterminated(buf, k) == StrEnd(buf, k) = Len(buf) - 1

LexemeEnd(buf, type, k) ==
    IF type = T_ID THEN IdEnd(buf, k)
    ELSE IF type = T_STRING THEN StrEnd(buf, k)
    ELSE NumEnd(buf, k)

Lexeme(buf, type, k) == SubSeq(buf, k + 1, LexemeEnd(buf, type, k))

\* byte c can begin a number, an identifier or a string
StartsLexeme(c) ==
    \/ c \in {C_PLUS, C_MINUS, C_DOT, C_DOLLAR, C_USCORE, C_QUOTE}
    \/ c \in IdBytes

(***************************************************************************)
(* Properties                                                              *)
(***************************************************************************)

\* C1: when a number, identifier or string token is directly followed by a
\* byte that begins another number, identifier or string, the next call of
\* tok_next delivers an error token located at that byte, with a message.
C1_AdjacentLexemeRejected ==
    \A k \in 1 .. Len(delivered) - 1 :
        ( /\ delivered[k].type \in LexemeKinds
          /\ StartsLexeme(At(content_orig, delivered[k].end)) )
        => ( /\ delivered[k + 1].type = T_ERROR
             /\ delivered[k + 1].string = delivered[k].end
             /\ err_msg # << >> )

\* the scanner is working on (or has delivered) the string whose opening
\* quote is at offset q
ScanningStringAt(q) ==
    /\ At(content_orig, q) = C_QUOTE
    /\ tok_string = q + 1
    /\ tok_type \in {T_STRING, T_ERROR}

\* C2: when the input ends inside a string literal, the call of tok_next
\* returns with an error token and an error message, and no string token
\* is delivered.
C2_UnterminatedStringIsError ==
    \A q \in 0 .. lex_end - 1 :
        (ScanningStringAt(q) /\ Unterminated(content_orig, q + 1))
        => (~hung /\ tok_type = T_ERROR /\ err_msg # << >>)

\* C3: once the token is the error token, a further call of tok_next
\* changes neither the token kind, the token location, the cursor, the
\* working buffer nor the error message.
C3_StickyError ==
    [][ (tok_type = T_ERROR)
        => ( /\ tok_type' = T_ERROR
             /\ tok_string' = tok_string
             /\ lex_string' = lex_string
             /\ lex_cur' = lex_cur
             /\ content' = content
             /\ err_msg' = err_msg ) ]_vars

\* tok_next was called again after it had delivered an error token
C3_Witness ==
    /\ Len(delivered) >= 2
    /\ delivered[Len(delivered) - 1].type = T_ERROR
    /\ delivered[Len(delivered)].type = T_ERROR
    /\ delivered[Len(delivered)].end < lex_end

NoAdjacentError(s) ==
    LET m == ScanFinal(read_file(s)).err_msg
    IN  \A i \in 1 .. Len(m) :
            m[i].fmt \notin {"Expected no number here.\n",
                             "Expected no identifier here.\n"}

\* C6 as stated: inserting white space between the tokens of any input
\* leaves the delivered token kinds and lexeme texts unchanged.
C6_WhitespaceInsertion == ScanAll(ws_t) = ScanAll(ws_s)

\* C6 amended: inserting white space between the tokens of an input whose
\* scan raises no adjacent-lexeme error leaves the delivered token kinds
\* and lexeme texts unchanged.
C6_WhitespaceInsertionNoAdjacent ==
    NoAdjacentError(ws_s) => ScanAll(ws_t) = ScanAll(ws_s)

\* white space was inserted between two delivered tokens of such an input
C6_Witness ==
    /\ NoAdjacentError(ws_s)
    /\ Len(ScanAll(ws_s)) >= 3
    /\ Len(ws_t) = Len(ws_s) + 1
    /\ ws_t[1] \notin SpaceBytes
    /\ ws_t[Len(ws_t)] \notin SpaceBytes

\* C4: once an error message has been written during cp_syn_parse, no
\* later step of cp_syn_parse changes it.
C4_FirstWriterWins ==
    [][ (err_msg # << >>) => (err_msg' = err_msg) ]_vars

(***************************************************************************)
(* Reading the token-level inputs back                                     *)
(***************************************************************************)
\* the space-terminated token texts of buf from offset k on
RECURSIVE Split(_, _)
Split(buf, k) ==
    IF k + 1 > Len(buf) \/ At(buf, k) = C_NUL THEN << >>
    ELSE LET e == RunEnd(buf, k, (1 .. 127) \ {C_SP})
         IN  << SubSeq(buf, k + 1, e) >> \o Split(buf, e + 1)

InputToks == Split(content_orig, 0)

\* a value without its locations
RECURSIVE ValShape(_)
ValShape(v) ==
    IF v.type = CP_SYN_VALUE_INT THEN [type |-> v.type, ival |-> v.ival]
    ELSE IF v.type = CP_SYN_VALUE_RANGE
    THEN [type |-> v.type,
          start |-> [i \in DOMAIN v.start |-> ValShape(v.start[i])],
          inc |-> [i \in DOMAIN v.inc |-> ValShape(v.inc[i])],
          end |-> [i \in DOMAIN v.end |-> ValShape(v.end[i])]]
    ELSE IF v.type = CP_SYN_VALUE_ARRAY
    THEN [type |-> v.type,
          value |-> [i \in DOMAIN v.value |-> ValShape(v.value[i])]]
    ELSE [type |-> v.type]

\* the tokens a value is written with
RECURSIVE ValToks(_)
RECURSIVE ValsToks(_)
ValToks(v) ==
    IF v.type = CP_SYN_VALUE_INT THEN << << C_0 + v.ival >> >>
    ELSE IF v.type = CP_SYN_VALUE_RANGE
    THEN << << C_LBRACK >> >> \o ValToks(v.start[1]) \o << << C_COLON >> >>
         \o (IF v.inc = << >> THEN << >>
             ELSE ValToks(v.inc[1]) \o << << C_COLON >> >>)
         \o ValToks(v.end[1]) \o << << C_RBRACK >> >>
    ELSE IF v.type = CP_SYN_VALUE_ARRAY
    THEN << << C_LBRACK >> >> \o ValsToks(v.value) \o << << C_RBRACK >> >>
    ELSE << << C_NUL >> >>

ValsToks(vs) ==
    IF vs = << >> THEN << >>
    ELSE IF Len(vs) = 1 THEN ValToks(vs[1])
    ELSE ValToks(vs[1]) \o << << C_COMMA >> >> \o ValsToks(Tail(vs))

\* xs without the commas that directly precede a closing bracket or
\* parenthesis
RECURSIVE DropTrailingCommas(_)
DropTrailingCommas(xs) ==
    IF xs = << >> THEN << >>
    ELSE IF Len(xs) >= 2 /\ xs[1] = << C_COMMA >>
            /\ xs[2] \in { << C_RBRACK >>, << C_RPAR >> }
         THEN DropTrailingCommas(Tail(xs))
         ELSE << Head(xs) >> \o DropTrailingCommas(Tail(xs))

IsAtom(x) == Len(x) = 1 /\ x[1] \in C_1 .. C_9
IntShape(x) == [type |-> CP_SYN_VALUE_INT, ival |-> x[1] - C_0]

\* the tokens x are f ( v ) ; for the tokens v of a bracketed value
IsValueToks(x) ==
    /\ Len(x) >= 5
    /\ SubSeq(x, 1, 3) = << << C_f >>, << C_LPAR >>, << C_LBRACK >> >>
    /\ SubSeq(x, Len(x) - 1, Len(x)) = << << C_RPAR >>, << C_SEMI >> >>

ValueToks(x) == SubSeq(x, 3, Len(x) - 2)

\* the input is f ( V ) ; and V are the tokens of the bracketed value
IsValueInput == IsValueToks(InputToks)

V == ValueToks(InputToks)

\* [ a : b ]   and   [ a : b : c ]   and   [ a , b , ... ] or [ a , b , ... , ]
IsRange2(x) ==
    Len(x) = 5 /\ IsAtom(x[2]) /\ x[3] = << C_COLON >> /\ IsAtom(x[4])
    /\ x[5] = << C_RBRACK >>

IsRange3(x) ==
    Len(x) = 7 /\ IsAtom(x[2]) /\ x[3] = << C_COLON >> /\ IsAtom(x[4])
    /\ x[5] = << C_COLON >> /\ IsAtom(x[6]) /\ x[7] = << C_RBRACK >>

IsAtomArray(x) ==
    /\ Len(x) >= 3
    /\ x[Len(x)] = << C_RBRACK >>
    /\ \A i \in 2 .. Len(x) - 1 :
          IF i % 2 = 0 THEN IsAtom(x[i]) ELSE x[i] = << C_COMMA >>

\* the atoms of [ a , b , ... ] in source order
AtomsOf(x) ==
    [i \in 1 .. ((Len(x) - 1) \div 2) |-> IntShape(x[2 * i])]

\* the value parsed for the first argument of the first form, and the
\* values of all its arguments
ParsedValue == toplevel[1].arg[1].value[1]

ParsedValues ==
    [i \in DOMAIN toplevel[1].arg |-> toplevel[1].arg[i].value[1]]

Closed(x) == x \o << << C_RBRACK >> >>

Accepted == pc = "done" /\ ret

\* the parse of f ( v ) ; has returned: what it made of the tokens v
BracketedValueParsed(v) ==
    /\ v = << << C_LBRACK >>, << C_RBRACK >> >>
         => ret /\ ValShape(ParsedValue)
                     = [type |-> CP_SYN_VALUE_ARRAY, value |-> << >>]
    /\ IsRange2(v)
         => ret /\ ValShape(ParsedValue)
                     = [type |-> CP_SYN_VALUE_RANGE,
                        start |-> << IntShape(v[2]) >>,
                        inc |-> << >>,
                        end |-> << IntShape(v[4]) >>]
    /\ IsRange3(v)
         => ret /\ ValShape(ParsedValue)
                     = [type |-> CP_SYN_VALUE_RANGE,
                        start |-> << IntShape(v[2]) >>,
                        inc |-> << IntShape(v[4]) >>,
                        end |-> << IntShape(v[6]) >>]
    /\ IsAtomArray(v)
         => ret /\ ValShape(ParsedValue)
                     = [type |-> CP_SYN_VALUE_ARRAY, value |-> AtomsOf(v)]
    /\ ( \/ v = << << C_LBRACK >> >>
         \/ IsRange2(Closed(v)) \/ IsRange3(Closed(v))
         \/ IsAtomArray(Closed(v)) )
         => ~ret
    /\ ret => ValsToks(ParsedValues) \o << << C_RPAR >> >>
                = DropTrailingCommas(v \o << << C_RPAR >> >>)

\* C7: a bracketed value is an empty array for [], a range start:end for
\* [a:b], a range start:inc:end for [a:b:c], an array of its elements in
\* source order for [a,b,...] with or without a trailing comma; the same
\* without the closing ] is rejected; and the accepted argument values,
\* written back as tokens, are the tokens of the input.
C7_BracketedValue ==
    (pc = "done") =>
        \A x \in {InputToks} :
            IsValueToks(x) => BracketedValueParsed(ValueToks(x))

\* a range with an increment was parsed
C7_Witness ==
    /\ Accepted /\ IsValueInput /\ IsRange3(V)
    /\ ParsedValue.type = CP_SYN_VALUE_RANGE
    /\ ParsedValue.inc # << >>

(***************************************************************************)
(* Forms                                                                   *)
(***************************************************************************)
ModToks == { << C_EXCL >>, << C_AST >>, << C_PCT >>, << C_HASH >> }

ModBit(x) ==
    IF x = << C_EXCL >> THEN CP_GC_MOD_EXCLAM
    ELSE IF x = << C_AST >> THEN CP_GC_MOD_AST
    ELSE IF x = << C_PCT >> THEN CP_GC_MOD_PERCENT
    ELSE CP_GC_MOD_HASH

\* the text of a functor
FunctorText(f) ==
    IF f = FunctorBrace THEN << C_LBRACE >>
    ELSE IF f = NULL THEN << >>
    ELSE CStr(content, f)

\* the input is n modifiers, then { , then k forms a() ; , then }
IsModGroup(x, n, k) ==
    /\ Len(x) = n + 2 * k + 2
    /\ \A i \in 1 .. n : x[i] \in ModToks
    /\ x[n + 1] = << C_LBRACE >>
    /\ \A i \in 1 .. k :
          /\ x[n + 2 * i] = << C_a, C_LPAR, C_RPAR >>
          /\ x[n + 2 * i + 1] = << C_SEMI >>
    /\ x[Len(x)] = << C_RBRACE >>

\* C8: zero or more modifiers followed by a brace-delimited body parse as
\* one anonymous group with functor "{", the OR of the modifiers read and
\* the forms of the body as children.
C8_ModifiedGroupAccepted ==
    \A n \in 0 .. MaxFormToks, k \in 0 .. MaxFormToks :
        (pc = "done" /\ IsModGroup(InputToks, n, k)) =>
          /\ ret
          /\ Len(toplevel) = 1
          /\ FunctorText(toplevel[1].functor) = << C_LBRACE >>
          /\ toplevel[1].modifier = { ModBit(InputToks[i]) : i \in 1 .. n }
          /\ Len(toplevel[1].body) = k
          /\ \A i \in 1 .. k :
                FunctorText(toplevel[1].body[i].functor) = << C_a >>

(***************************************************************************)
(* Layer driver                                                            *)
(***************************************************************************)
\* C9: in one pass over a counter that starts at 0, the k-th call of next_i
\* returns true and delivers index k-1 as long as k <= count, and every
\* later call returns false and delivers nothing; no index >= count is
\* delivered.
C9_NextIDelivers ==
    /\ zi = Len(calls)
    /\ \A k \in 1 .. Len(calls) :
          IF k <= zi_count
          THEN calls[k].ret /\ calls[k].i = k - 1
          ELSE /\ ~calls[k].ret
               /\ calls[k].i = (IF zi_count = 0 THEN -1 ELSE zi_count - 1)
    /\ \A k \in 1 .. Len(calls) : calls[k].i < zi_count

\* all indices were delivered and further calls were made
C9_Witness ==
    /\ dpc = "next_i"
    /\ zi_count >= 3
    /\ Len(calls) = zi_count + 2
    /\ calls[zi_count].ret
    /\ ~calls[zi_count + 1].ret

Pass1Ops == {"add_layer", "op_add_layer", "tri_layer"}
Pass2Ops == {"op_diff_layer", "tri_layer_diff"}

\* among the first n calls of the trace, call op succeeded on layer k
DoneBefore(n, op, k) ==
    \E a \in 1 .. n : trace[a].op = op /\ trace[a].i = k /\ trace[a].ok

\* pass 1 is complete for layer k within the first n calls of the trace
Pass1Complete(n, k) ==
    /\ DoneBefore(n, "add_layer", k)
    /\ ~opt.no_csg => DoneBefore(n, "op_add_layer", k)
    /\ ~opt.no_tri => DoneBefore(n, "tri_layer", k)

\* C10: before any call of pass 2 on any layer, pass 1 has completed
\* successfully for every layer index 0..count-1.
C10_PassBarrier ==
    \A n \in 1 .. Len(trace) :
        trace[n].op \in Pass2Ops
        => \A k \in 0 .. zi_count - 1 : Pass1Complete(n - 1, k)

\* pass 2 has worked on a layer of a stack of several layers
C10_Witness ==
    /\ zi_count >= 2
    /\ \E n \in 1 .. Len(trace) : trace[n].op = "op_diff_layer" /\ trace[n].i = 1

\* the position of the last call of the iteration that pool_clear opens at
\* position m of the trace
IterEnd(m) ==
    IF \E x \in m + 1 .. Len(trace) : trace[x].op = "pool_clear"
    THEN (CHOOSE x \in m + 1 .. Len(trace) :
            /\ trace[x].op = "pool_clear"
            /\ \A y \in m + 1 .. x - 1 : trace[y].op # "pool_clear") - 1
    ELSE Len(trace)

\* the calls of the iteration that opens at position m of the trace
Iter(m) == SubSeq(trace, m, IterEnd(m))

\* the iteration that opens at position m is over
IterOver(m) ==
    \/ IterEnd(m) < Len(trace)
    \/ dpc \notin {"csg_add", "csg_op", "csg_tri", "diff_op", "diff_tri"}

IsPrefix(s, t) == Len(s) <= Len(t) /\ \A k \in 1 .. Len(s) : s[k] = t[k]

OpsOf(it) == [k \in 1 .. Len(it) |-> it[k].op]

\* the calls of one iteration of pass 1, in order
Pass1Seq ==
    << "pool_clear", "add_layer" >>
    \o (IF ~opt.no_csg THEN << "op_add_layer" >> ELSE << >>)
    \o (IF ~opt.no_tri THEN << "tri_layer" >> ELSE << >>)

\* iteration it is one of pass 1: in order and, when it ran to its end
\* without a failing call, complete; the triangulator is given the tree the
\* reduction wrote, or the tree the slicer wrote when there is no reduction
Pass1Iter(it, over) ==
    /\ IsPrefix(OpsOf(it), Pass1Seq)
    /\ (over /\ \A k \in 1 .. Len(it) : it[k].ok) => OpsOf(it) = Pass1Seq
    /\ \A k \in 1 .. Len(it) :
          it[k].op = "tri_layer"
          => it[k].tree = (IF ~opt.no_csg THEN it[3].tree ELSE it[2].tree)
    /\ \A k \in 1 .. Len(it) :
          /\ it[k].op = "add_layer" => it[k].tree = "csg2"
          /\ it[k].op = "op_add_layer" => it[k].tree = "csg2b"

\* C11: every iteration of pass 1 resets the arena, then slices the layer
\* (add_layer), then runs op_add_layer exactly when reduction is enabled,
\* then runs tri_layer exactly when triangulation is enabled, on the
\* reduced tree when reduction is enabled and on the sliced tree otherwise;
\* in both passes every call on a layer belongs to an iteration that began
\* with one arena reset for that layer, and the arena holds nothing of
\* another layer.
C11_Pass1Order ==
    /\ Len(trace) > 0 => trace[1].op = "pool_clear"
    /\ dpc \notin {"csg_clear", "diff_clear"}
          => \A j \in 1 .. Len(pool) : pool[j] = cur_i
    /\ \A m \in 1 .. Len(trace) :
          trace[m].op = "pool_clear" =>
            \A it \in {Iter(m)} :
              /\ \A k \in 1 .. Len(it) : it[k].i = it[1].i
              /\ Len(it) >= 2 => it[2].op \in {"add_layer", "op_diff_layer"}
              /\ (Len(it) >= 2 /\ it[2].op = "add_layer")
                    => Pass1Iter(it, IterOver(m))
              /\ \A m2 \in m + 1 .. Len(trace) :
                    (trace[m2].op = "pool_clear" /\ trace[m2].i = it[1].i)
                    => /\ Len(it) >= 2 /\ it[2].op = "add_layer"
                       /\ \A x \in m2 + 1 .. Len(trace) :
                             trace[x].op \notin Pass1Ops

\* a stack of several layers went through pass 1 with reduction and
\* triangulation, and through pass 2
C11_Witness ==
    /\ dpc = "done"
    /\ do_ret = "true"
    /\ zi_count >= 2
    /\ ~opt.no_csg /\ ~opt.no_tri
    /\ \E n \in 1 .. Len(trace) : trace[n].op = "tri_layer" /\ trace[n].i = 1
    /\ \E n \in 1 .. Len(trace) : trace[n].op = "tri_layer_diff"

\* C12: a failing slicer or triangulator call on layer i is the last call
\* made: no further step of layer i, no later layer, no call of pass 2
\* after a failure in pass 1, no emitter; do_file returns false; the error
\* recorded is that of this call, and every layer below i went through the
\* pass without a failure.
C12_FailStop ==
    \A n \in 1 .. Len(trace) :
        ~trace[n].ok =>
          /\ n = Len(trace)
          /\ trace[n].op \in {"add_layer", "tri_layer", "tri_layer_diff"}
          /\ zi = trace[n].i + 1
          /\ cur_i = trace[n].i
          /\ dpc \in {"fail", "done"}
          /\ dpc = "done" => do_ret = "false"
          /\ do_ret # "true"
          /\ emitted = "none"
          /\ derr = << trace[n] >>
          /\ \A a \in 1 .. n - 1 : trace[a].ok
          /\ trace[n].op \in Pass1Ops
                => \A a \in 1 .. Len(trace) : trace[a].op \notin Pass2Ops
          /\ \A k \in 0 .. trace[n].i - 1 :
                \E a \in 1 .. n - 1 :
                    /\ trace[a].i = k
                    /\ trace[a].op =
                         (IF trace[n].op \in Pass1Ops THEN "add_layer"
                          ELSE "op_diff_layer")

\* do_file returned false after the triangulator failed on the second layer
\* of a stack of three
C12_Witness ==
    /\ dpc = "done"
    /\ do_ret = "false"
    /\ zi_count = 3
    /\ Len(trace) > 0
    /\ trace[Len(trace)].op = "tri_layer"
    /\ trace[Len(trace)].i = 1
    /\ ~trace[Len(trace)].ok

\* the calls of one iteration of pass 2, in order
Pass2Seq ==
    << "pool_clear", "op_diff_layer" >>
    \o (IF ~opt.no_tri THEN << "tri_layer_diff" >> ELSE << >>)

\* the positions of the trace at which call op is made on layer k
CallsOf(op, k) == {n \in 1 .. Len(trace) : trace[n].op = op /\ trace[n].i = k}

\* C16: calls of pass 2 are made only when dump_js is set and no_diff is
\* not, and then do_file does not print without them; the first layer of
\* pass 2 is layer 0; every iteration of pass 2 calls op_diff_layer and then
\* tri_layer_diff exactly when triangulation is enabled; and when do_file
\* prints, pass 2 has processed every layer 0..count-1 exactly once.
C16_Pass2 ==
    /\ (\E n \in 1 .. Len(trace) : trace[n].op \in Pass2Ops)
          => opt.dump_js /\ ~opt.no_diff
    /\ \A n \in 1 .. Len(trace) :
          (trace[n].op = "op_diff_layer"
           /\ \A a \in 1 .. n - 1 : trace[a].op # "op_diff_layer")
          => trace[n].i = 0
    /\ \A m \in 1 .. Len(trace) :
          trace[m].op = "pool_clear" =>
            \A it \in {Iter(m)} :
              (Len(it) >= 2 /\ it[2].op = "op_diff_layer") =>
                /\ IsPrefix(OpsOf(it), Pass2Seq)
                /\ (IterOver(m) /\ \A k \in 1 .. Len(it) : it[k].ok)
                      => OpsOf(it) = Pass2Seq
                /\ \A k \in 1 .. Len(it) : it[k].i = it[1].i
                /\ \A k \in 2 .. Len(it) : it[k].tree = csg2_out
    /\ \A k \in 0 .. zi_count - 1 :
          /\ Cardinality(CallsOf("op_diff_layer", k)) <= 1
          /\ Cardinality(CallsOf("tri_layer_diff", k)) <= 1
          /\ (do_ret = "true" /\ opt.dump_js /\ ~opt.no_diff)
                => /\ Cardinality(CallsOf("op_diff_layer", k)) = 1
                   /\ Cardinality(CallsOf("tri_layer_diff", k))
                        = (IF ~opt.no_tri THEN 1 ELSE 0)
          /\ \A a \in CallsOf("op_diff_layer", k) :
                \A j \in 0 .. k - 1 :
                    \E b \in CallsOf("op_diff_layer", j) : b < a

\* do_file printed after pass 2 went through a stack of three layers with
\* triangulation
C16_Witness ==
    /\ dpc = "done"
    /\ do_ret = "true"
    /\ zi_count = 3
    /\ ~opt.no_tri
    /\ \E n \in 1 .. Len(trace) : trace[n].op = "tri_layer_diff" /\ trace[n].i = 2
    /\ zi = zi_count + 1

(***************************************************************************)
(* Layer driver run by several threads                                     *)
(***************************************************************************)
\* C13: once a call of a pass has failed in one thread, every later call of
\* next_i returns false: no thread acquires a further layer index.
C13_CooperativeStop == \A c \in wk_calls : c.err => ~c.ret

\* the calls of next_i of pass p that delivered index k
Acquired(p, k) == {c \in wk_calls : c.ret /\ c.pass = p /\ c.i = k}

\* the counter of pass p has run out: a call of next_i returned false
RanOut(p) == \E c \in wk_calls : c.pass = p /\ ~c.ret

\* the threads that are inside an iteration
Busy == {w \in 1 .. wk_n : wk_pc[w] \notin {"csg_next", "diff_next",
                                            "fail", "diff", "print"}}

\* C14: in each pass every layer index is delivered by next_i at most once,
\* all calls on a layer are made by the thread the index was delivered to,
\* no call is made twice on a layer, two threads never work on the same
\* layer at the same time, and once the counter has run out every index
\* 0..count-1 has been delivered to exactly one thread.
C14_SingleWriter ==
    /\ \A v \in Busy, w \in Busy : v # w => wk_i[v] # wk_i[w]
    /\ \A p \in 1 .. 2, k \in 0 .. zi_count - 1 :
        \A h \in {wk_hist[p][k]}, A \in {Acquired(p, k)} :
          /\ Cardinality(A) <= 1
          /\ RanOut(p) => Cardinality(A) = 1
          /\ \A a \in 1 .. Len(h) :
                /\ \E c \in A : c.w = h[a].w
                /\ \A b \in 1 .. Len(h) : h[a].op = h[b].op => a = b

\* two threads have shared the layers of the first pass of a stack, and
\* one of them took all layers of the second
C14_Witness ==
    /\ wk_pass = 0
    /\ do_ret = "true"
    /\ zi_count >= 2
    /\ wk_n >= 2
    /\ Len(wk_hist[2][0]) > 0 /\ Len(wk_hist[2][1]) > 0
    /\ wk_hist[1][0][1].w = 2 /\ wk_hist[1][1][1].w = 1
    /\ wk_hist[2][0][1].w = 1 /\ wk_hist[2][1][1].w = 1

\* the trees before the first pass
NoLayers ==
    [t \in {"csg2", "csg2b"} |-> [k \in 0 .. zi_count - 1 |-> EmptyLayer]]

\* C15: when do_file is over, it gets to print with several threads, in
\* whatever order they worked on the layers, exactly when it does with one
\* thread that takes the layers in ascending order, and the layers of the
\* trees it prints are then the same.
C15_LayerIndependence ==
    wk_pass = 0 =>
        \A s \in {do_file_passes(NoLayers)} :
            /\ (do_ret = "true") = s.ok
            /\ s.ok => wk_tree = s.tree

\* two threads have shared the layers of a stack in both passes, with
\* reduction, triangulation and difference, and do_file printed
C15_Witness ==
    /\ wk_pass = 0
    /\ do_ret = "true"
    /\ zi_count >= 2
    /\ opt.dump_js /\ ~opt.no_diff /\ ~opt.no_tri /\ ~opt.no_csg
    /\ wk_hist[1][0][1].w # wk_hist[1][1][1].w
    /\ wk_hist[2][0][1].w # wk_hist[2][1][1].w

(***************************************************************************)
(* Z range                                                                 *)
(***************************************************************************)
\* C17: the layer count of the range handed to the layer driver is at
\* least 1, whatever z_min, z_max and z_step > 0 are, also when z_max is
\* below z_min and when the tree is empty.
C17_CountAtLeastOne == zr_pc = "layers" => zr_range.cnt >= 1

\* the range was made for a z_max below z_min, and for an empty tree
C17_Witness ==
    /\ zr_pc = "layers"
    /\ zr_tree = {}
    /\ zr_z_max < zr_z_min
    /\ zr_opt.z_step > 0
    /\ zr_range.cnt = 1

\* the z extent of the leaves that are not being subtracted
NormalLeaves == {l \in zr_tree : ~l.sub}

\* C18: the range starts at the z_min of the user when one is given and
\* otherwise at the lowest z of the leaves that are not subtracted plus
\* z_step/2; it ends at the z_max of the user when one is given and
\* otherwise at the highest z of the leaves that are not subtracted (the
\* empty box when there is no such leaf); either override applies whether
\* or not the other is given.
C18_ZRange ==
    zr_pc = "layers" =>
      /\ zr_range.min = zr_z_min
      /\ zr_range.step = zr_opt.z_step
      /\ zr_opt.have_z_min => zr_z_min = zr_opt.z_min
      /\ zr_opt.have_z_max => zr_z_max = zr_opt.z_max
      /\ (~zr_opt.have_z_min /\ NormalLeaves # {}) =>
            /\ \E l \in NormalLeaves : 2 * zr_z_min = 2 * l.lo + zr_opt.z_step
            /\ \A l \in NormalLeaves : 2 * zr_z_min <= 2 * l.lo + zr_opt.z_step
      /\ (~zr_opt.have_z_min /\ NormalLeaves = {}) =>
            2 * zr_z_min = 2 * CP_VEC3_MINMAX_EMPTY.min + zr_opt.z_step
      /\ (~zr_opt.have_z_max /\ NormalLeaves = {}) =>
            zr_z_max = CP_VEC3_MINMAX_EMPTY.max
      /\ (~zr_opt.have_z_max /\ NormalLeaves # {}) =>
            /\ \E l \in NormalLeaves : zr_z_max = l.hi
            /\ \A l \in NormalLeaves : zr_z_max >= l.hi

\* the user gave z_max only, and the tree has a subtracted leaf that
\* reaches below and above the leaf that is not subtracted
C18_Witness ==
    /\ zr_pc = "layers"
    /\ ~zr_opt.have_z_min /\ zr_opt.have_z_max
    /\ \E l \in zr_tree, m \in zr_tree :
          ~l.sub /\ m.sub /\ m.lo < l.lo /\ m.hi > l.hi
    /\ zr_opt.z_max # zr_bb.max

(***************************************************************************)
(* Line table and locations                                                *)
(***************************************************************************)
\* the offsets directly after a newline byte of the file
AfterNewline == {j + 1 : j \in {x \in 0 .. Len(ln_file) - 1 : At(ln_file, x) = C_LF}}

\* C19: once the file is read, its line table begins with offset 0, is
\* strictly increasing, ends with the length of the content, has exactly
\* one entry directly after every newline byte, and has no other entry.
C19_LineStarts ==
    ln_pc = "read" =>
      /\ Len(ln_line) >= 1
      /\ ln_line[1] = 0
      /\ \A k \in 1 .. Len(ln_line) - 1 : ln_line[k] < ln_line[k + 1]
      /\ ln_line[Len(ln_line)] = Len(ln_file)
      /\ Len(content_orig) = Len(ln_file) + 1
      /\ \A e \in AfterNewline :
            Cardinality({k \in 1 .. Len(ln_line) : ln_line[k] = e}) = 1
      /\ \A k \in 1 .. Len(ln_line) :
            ln_line[k] \in {0, Len(ln_file)} \cup AfterNewline

\* a file of two lines whose last byte is a newline was read
C19_Witness ==
    /\ ln_pc = "read"
    /\ Len(ln_file) = 3
    /\ At(ln_file, 2) = C_LF
    /\ At(ln_file, 0) = C_LF
    /\ ln_line = << 0, 1, 3 >>

\* C20: a call of cp_syn_get_loc with a pointer into the working buffer
\* returns true with the index i of the line that contains the pointer,
\* line[i] <= p < line[i+1] (the first byte of a line belongs to that line;
\* the terminating NUL is the empty last line), and with both line ranges
\* from line[i] to line[i+1]; a call with a pointer outside the buffer
\* returns false.
C20_LocationMapping ==
    ln_ret # "none" =>
      IF ln_token >= 0 /\ ln_token < Len(content)
      THEN /\ ln_ret = "true"
           /\ ln_loc.line >= 0 /\ ln_loc.line < Len(ln_line)
           /\ ln_line[ln_loc.line + 1] <= ln_token
           /\ ln_loc.copy = ln_line[ln_loc.line + 1]
           /\ IF ln_loc.line + 2 <= Len(ln_line)
              THEN /\ ln_token < ln_line[ln_loc.line + 2]
                   /\ ln_loc.copy_end = ln_line[ln_loc.line + 2]
              ELSE /\ ln_token = Len(ln_file)
                   /\ ln_loc.copy_end = ln_loc.copy
           /\ ln_loc.orig = ln_loc.copy
           /\ ln_loc.orig_end = ln_loc.copy_end
      ELSE ln_ret = "false"

(***************************************************************************)
(* Properties of main and of the stages of do_file                         *)
(***************************************************************************)
\* the file name ends with the bytes suf
EndsWith(name, suf) ==
    \E k \in 0 .. Len(name) : name = SubSeq(name, 1, k) \o suf

\* the emitters the endings of a file name stand for
SuffixEmitters(name) ==
    {e \in {"cp_csg2_tree_put_stl", "cp_csg2_tree_put_js",
            "cp_csg2_tree_put_scad", "cp_csg2_tree_put_ps"} :
       \/ e = "cp_csg2_tree_put_stl" /\ EndsWith(name, SUFFIX_STL)
       \/ e = "cp_csg2_tree_put_js" /\ EndsWith(name, SUFFIX_JS)
       \/ e = "cp_csg2_tree_put_scad" /\ EndsWith(name, SUFFIX_SCAD)
       \/ e = "cp_csg2_tree_put_scad" /\ EndsWith(name, SUFFIX_CSG)
       \/ e = "cp_csg2_tree_put_ps" /\ EndsWith(name, SUFFIX_PS)}

\* the calls of do_file that write a tree to the output stream
PutCalls ==
    {"cp_syn_tree_put_scad", "cp_scad_tree_put_scad", "cp_csg3_tree_put_scad",
     "cp_csg2_tree_put_scad", "cp_csg2_tree_put_stl", "cp_csg2_tree_put_js",
     "cp_csg2_tree_put_ps"}

\* the calls of do_file made so far that write a tree
PutsMade == {mn_log[i] : i \in 1 .. Len(mn_log)} \cap PutCalls

\* C21: when an output file is given (and can be opened) and no dump option
\* was given, the emitter is the one of the file name's ending: .stl the
\* STL emitter, .js the JS emitter, .scad and .csg the SCAD echo of the 2D
\* tree, .ps the PostScript emitter; a name with none of these endings makes
\* main exit with status 1 before the input file is opened or any stage has
\* run.  When a dump option was given, the step that handles the output
\* file neither changes an option nor exits, whatever the name.
C21_SuffixSelectsEmitter ==
    /\ [](\A name \in {mn_opt.out_file_name} :
            (/\ mn_pc \notin {"idle", "out"}
             /\ name # NoName
             /\ ~mn_opt.have_dump
             /\ "fopen_out" \notin mn_fails)
            => IF SuffixEmitters(name) = {}
               THEN /\ mn_pc = "exited"
                    /\ mn_status = 1
                    /\ mn_log = << >>
                    /\ mn_fin = "null"
               ELSE /\ PutsMade \subseteq SuffixEmitters(name)
                    /\ mn_ok = "true" => PutsMade = SuffixEmitters(name)
                    /\ (mn_pc = "exited" /\ mn_fails = {} /\ mn_in = "name")
                           => mn_status = 0)
    /\ [][(/\ mn_pc = "out"
           /\ mn_opt.out_file_name # NoName
           /\ mn_opt.have_dump
           /\ "fopen_out" \notin mn_fails)
          => (mn_opt' = mn_opt /\ mn_status' = -1 /\ mn_pc' = "in")]_vars

\* main has exited with status 0 after the 2D tree was echoed as SCAD for
\* the output file "a.csg", no dump option given
C21_Witness ==
    /\ mn_pc = "exited"
    /\ mn_status = 0
    /\ mn_opt.out_file_name = <<C_a>> \o SUFFIX_CSG
    /\ ~mn_opt.have_dump
    /\ PutsMade = {"cp_csg2_tree_put_scad"}

\* the output file's name is looked at and has none of the known endings
UnknownEnding ==
    /\ mn_opt.out_file_name # NoName
    /\ "fopen_out" \notin mn_fails
    /\ ~mn_opt.have_dump
    /\ SuffixEmitters(mn_opt.out_file_name) = {}

\* a call that was made has failed: the fopen of the output file, the fopen
\* of the input file (reached unless main exited before), a stage of do_file
StageFailed ==
    \/ mn_opt.out_file_name # NoName /\ "fopen_out" \in mn_fails
    \/ /\ "fopen_in" \in mn_fails \/ mn_in = "null"
       /\ ~(mn_opt.out_file_name # NoName /\ "fopen_out" \in mn_fails)
       /\ ~UnknownEnding
    \/ \E i \in 1 .. Len(mn_log) : mn_log[i] \in mn_fails

\* the last thing on stderr is the diagnostic of a failed do_file, with a
\* message that is not empty and ends in a newline
Diagnosed ==
    /\ Len(mn_stderr) > 0
    /\ \A d \in {mn_stderr[Len(mn_stderr)]} :
         /\ d.kind = "Error"
         /\ Len(d.msg) > 0
         /\ d.msg[Len(d.msg)] = C_LF

\* C22 as stated: main exits with status 0 exactly when every call it made
\* succeeded, and with status 1 when the fopen of a file or a stage of
\* do_file failed; when do_file failed, a diagnostic with a non-empty message
\* that ends in a newline was printed before the exit.
C22_ExitStatus ==
    mn_pc = "exited" =>
      /\ mn_status = 0 <=> ~StageFailed
      /\ StageFailed => mn_status = 1
      /\ mn_ok = "false" => Diagnosed

\* C22, amended: main exits with status 0 exactly when the output file's
\* ending was accepted and every call it made succeeded, and with status 1
\* otherwise; do_file returned false exactly when one of its stages failed,
\* and then a diagnostic with a non-empty message that ends in a newline was
\* printed before the exit.
C22_ExitStatusAmended ==
    mn_pc = "exited" =>
      /\ mn_status \in {0, 1}
      /\ mn_status = 0 <=> (~StageFailed /\ ~UnknownEnding)
      /\ mn_ok = "false" <=> (\E i \in 1 .. Len(mn_log) : mn_log[i] \in mn_fails)
      /\ mn_ok = "false" => Diagnosed
      /\ mn_ok # "false" => \A i \in 1 .. Len(mn_stderr) :
                                mn_stderr[i].kind # "Error"

\* main has exited with status 1 after process_stack_csg failed without a
\* message: the diagnostic says "Unknown failure."
C22_Witness ==
    /\ mn_pc = "exited"
    /\ mn_status = 1
    /\ "process_stack_csg" \in mn_fails
    /\ mn_ok = "false"
    /\ mn_stderr = << [kind |-> "Error", msg |-> UnknownFailure] >>

\* C23: when main has exited, on a success path or on an error path, every
\* file that was opened has been closed and the pool that do_file
\* initialised has been released.
C23_ScopedRelease ==
    mn_pc = "exited" =>
      /\ mn_fin # "open"
      /\ mn_fout # "open"
      /\ mn_pool # "init"

\* the calls of do_file up to and including each stage dump
UpToSyn == {"cp_syn_parse", "cp_syn_tree_put_scad"}
UpToScad == UpToSyn \cup {"cp_scad_from_syn_tree", "cp_scad_tree_put_scad"}
UpToCsg3 ==
    UpToScad \cup
    {"cp_csg3_from_scad_tree", "cp_csg3_tree_bb", "cp_csg3_tree_put_scad"}

\* the calls of do_file made so far
CallsMade == {mn_log[i] : i \in 1 .. Len(mn_log)}

\* the first stage dump option set, in pipeline order
FirstStageDump ==
    IF mn_opt.dump_syn THEN "cp_syn_tree_put_scad"
    ELSE IF mn_opt.dump_scad THEN "cp_scad_tree_put_scad"
    ELSE IF mn_opt.dump_csg3 THEN "cp_csg3_tree_put_scad"
    ELSE "none"

\* C24: with --dump-syn no call of a later stage is ever made and, once
\* the parse succeeded, the syntax tree is echoed as the last call of
\* do_file; likewise for --dump-scad after lowering and --dump-csg3 after
\* the CSG3 stage; with several of them set only the earliest stage in
\* pipeline order echoes; with none of them set, --dump-csg2 echoes the 2D
\* tree as the last call, after process_stack_csg and, where it runs,
\* process_stack_diff.
C24_StageDumpStops ==
    /\ mn_opt.dump_syn => CallsMade \subseteq UpToSyn
    /\ mn_opt.dump_scad => CallsMade \subseteq UpToScad
    /\ mn_opt.dump_csg3 => CallsMade \subseteq UpToCsg3
    /\ FirstStageDump # "none" =>
         /\ CallsMade \cap PutCalls \subseteq {FirstStageDump}
         /\ mn_ok = "true" => mn_log[Len(mn_log)] = FirstStageDump
    /\ (FirstStageDump = "none" /\ mn_opt.dump_csg2) =>
         /\ CallsMade \cap PutCalls \subseteq {"cp_csg2_tree_put_scad"}
         /\ mn_ok = "true" =>
              /\ mn_log[Len(mn_log)] = "cp_csg2_tree_put_scad"
              /\ "process_stack_csg" \in CallsMade
              /\ (mn_opt.dump_js /\ ~mn_opt.no_diff)
                    => "process_stack_diff" \in CallsMade

\* do_file has returned true with --dump-syn and --dump-csg3 both set: the
\* syntax tree was echoed right after the parse and nothing else was called
C24_Witness ==
    /\ mn_ok = "true"
    /\ mn_opt.dump_syn
    /\ mn_opt.dump_csg3
    /\ mn_log = <<"cp_syn_parse", "cp_syn_tree_put_scad">>

\* do_file has returned true with --dump-csg2: both passes ran before the
\* echo of the 2D tree
C24_WitnessCsg2 ==
    /\ mn_ok = "true"
    /\ mn_opt.dump_csg2
    /\ mn_opt.dump_js
    /\ "process_stack_diff" \in CallsMade
    /\ mn_log[Len(mn_log)] = "cp_csg2_tree_put_scad"

(***************************************************************************)
(* Properties of comments and numbers                                      *)
(***************************************************************************)
\* the comments tok_next_aux2 scans from p on, one after the other, up to
\* the next token that is no comment: every line comment stops at a newline
\* or at the end of input, holds no newline, and a newline it stops at is
\* skipped by the next call as white space
RECURSIVE LineCommentsEnd(_)
LineCommentsEnd(p) ==
    \A q \in {tok_next_aux2(p)} :
      IF q.hung \/ q.tok_type \notin {T_LCOM, T_BCOM} THEN TRUE
      ELSE /\ q.tok_type = T_LCOM =>
                /\ q.lex_cur \in {C_LF, C_NUL}
                /\ At(content_orig, q.lex_string) = q.lex_cur
                /\ q.lex_string >= q.tok_string + 2
                /\ \A k \in q.tok_string .. q.lex_string - 1 :
                     At(content_orig, k) # C_LF
                /\ q.lex_cur = C_LF =>
                     \A r \in {tok_next_aux2(q)} :
                       r.hung \/ r.tok_string > q.lex_string
           /\ LineCommentsEnd(q)

\* C25: whenever tok_next has returned, the current token kind is neither
\* line comment nor block comment, for every token delivered so far; and
\* every line comment of the low-level scanner ends before its newline,
\* which the next scan skips as white space.
C25_CommentsHidden ==
    /\ ~hung => tok_type \notin {T_LCOM, T_BCOM}
    /\ \A i \in 1 .. Len(delivered) : delivered[i].type \notin {T_LCOM, T_BCOM}
    /\ ~hung => LineCommentsEnd(P)

\* the first call of tok_next on "//\na" has returned the identifier that
\* follows the line comment and its newline
C25_Witness ==
    /\ content_orig = <<C_SLASH, C_SLASH, C_LF, C_a, C_NUL>>
    /\ Len(delivered) = 1
    /\ delivered[1].type = T_ID
    /\ tok_string = 3

(***************************************************************************)
(* Modifiers of a call                                                     *)
(***************************************************************************)
CallTok == << C_a, C_LPAR, C_RPAR >>

\* the input is a chain of calls a() , each with modifiers in front, closed
\* by one ; : every call is the only child of the call before it
IsCallChain(x) ==
    /\ Len(x) >= 2
    /\ x[Len(x)] = << C_SEMI >>
    /\ x[Len(x) - 1] = CallTok
    /\ \A i \in 1 .. Len(x) - 2 : x[i] \in ModToks \cup {CallTok}

\* the number of modifier tokens x starts with
RECURSIVE LeadingMods(_)
LeadingMods(x) ==
    IF x # << >> /\ Head(x) \in ModToks THEN 1 + LeadingMods(Tail(x)) ELSE 0

\* form f is the first call of the chain x: its flags are those of the
\* modifiers in front of its functor, and its body is the rest of the chain
RECURSIVE ChainParsed(_, _)
ChainParsed(f, x) ==
    \A n \in {LeadingMods(x)} :
      /\ f.modifier = { ModBit(x[i]) : i \in 1 .. n }
      /\ FunctorText(f.functor) = << C_a >>
      /\ IF x[n + 2] = << C_SEMI >>
         THEN f.body = << >>
         ELSE /\ Len(f.body) = 1
              /\ ChainParsed(f.body[1], SubSeq(x, n + 2, Len(x)))

\* C26: the modifier flags of a call are the OR of the bits of the modifier
\* characters read before its functor: each character read sets its bit,
\* whatever the order and however often it is repeated, and no other bit is
\* set (in particular none of the modifiers of another call).
C26_ModifierAggregation ==
    (pc = "done" /\ IsCallChain(InputToks)) =>
      /\ ret
      /\ Len(toplevel) = 1
      /\ ChainParsed(toplevel[1], InputToks)

\* % # # ! a() ; was parsed: three bits from four modifiers
C26_Witness ==
    /\ pc = "done"
    /\ InputToks = << << C_PCT >>, << C_HASH >>, << C_HASH >>, << C_EXCL >>,
                      CallTok, << C_SEMI >> >>
    /\ ret
    /\ toplevel[1].modifier =
         {CP_GC_MOD_PERCENT, CP_GC_MOD_HASH, CP_GC_MOD_EXCLAM}

\* the bytes of the working buffer from offset k up to the first NUL are
\* the bytes of the file from k up to, not including, offset e
LexemeIs(k, e) ==
    /\ k <= e
    /\ CStr(content, k) = SubSeq(content_orig, k + 1, e)

\* the offset of the first byte of the file that is no white space
FirstByte == RunEnd(content_orig, 0, SpaceBytes)

\* C27: a token of kind integer or float has kind integer exactly when its
\* lexeme holds neither a '.' nor an 'e' or 'E', and kind float otherwise;
\* the lexeme is the text of the file between the token's start and the
\* scanner's position after it; it never starts with '+'; when the first
\* token of the file is a number written with a leading '+', its lexeme
\* starts after the '+', and when it is written with a leading '-', the
\* lexeme starts with the '-'.
C27_NumberKind ==
    \A i \in 1 .. Len(delivered) :
      \A d \in {delivered[i]} :
        d.type \in {T_INT, T_FLOAT} =>
          \A lx \in {CStr(content, d.string)} :
            /\ LexemeIs(d.string, d.end)
            /\ d.type = T_INT <=>
                 (\A k \in 1 .. Len(lx) : lx[k] \notin {C_DOT, C_e, C_UE})
            /\ d.type = T_FLOAT <=>
                 (\E k \in 1 .. Len(lx) : lx[k] \in {C_DOT, C_e, C_UE})
            /\ lx # << >> => lx[1] # C_PLUS
            /\ i = 1 =>
                 /\ At(content_orig, FirstByte) = C_PLUS
                       => d.string = FirstByte + 1
                 /\ At(content_orig, FirstByte) = C_MINUS
                       => d.string = FirstByte /\ lx[1] = C_MINUS

\* +-1E was scanned as the float -1E
C27_Witness ==
    /\ content_orig = <<C_PLUS, C_MINUS, C_1, C_UE, C_NUL>>
    /\ Len(delivered) >= 1
    /\ delivered[1].type = T_FLOAT
    /\ delivered[1].string = 1
    /\ CStr(content, 1) = <<C_MINUS, C_1, C_UE>>

\* the file content, without the terminating NUL of the buffer
Input == SubSeq(content_orig, 1, Len(content_orig) - 1)

\* no * / closes a block comment that opens at offset k of the file
Unclosed(k) ==
    ~\E j \in k + 2 .. Len(Input) - 2 :
        At(content_orig, j) = C_AST /\ At(content_orig, j + 1) = C_SLASH

\* the file holds the two bytes that open a block comment
HasOpener ==
    \E k \in 0 .. Len(content_orig) - 2 :
        At(content_orig, k) = C_SLASH /\ At(content_orig, k + 1) = C_AST

\* the low-level scanner is about to scan a block comment
AtBlockComment(s) ==
    /\ s.tok_type # T_ERROR
    /\ s.lex_cur = C_SLASH
    /\ At(content_orig, s.lex_string + 1) = C_AST

\* every block comment the low-level scanner meets from p on: one that is
\* not closed gives an error token with the message of syn.c:214, one that
\* is closed gives a comment token
RECURSIVE BlockCommentsScanned(_)
BlockCommentsScanned(p) ==
    \A s \in {skip_space(p)}, q \in {tok_next_aux2(p)} :
      /\ AtBlockComment(s) =>
           IF Unclosed(s.lex_string)
           THEN /\ q.tok_type = T_ERROR
                /\ q.err_msg = << Msg("File ends inside comment.\n", << >>, "") >>
           ELSE q.tok_type = T_BCOM
      /\ IF q.hung \/ q.tok_type \in {T_EOF, T_ERROR} THEN TRUE
         ELSE BlockCommentsScanned(q)

\* the low-level scanner, started at p, gets to a block comment that is not
\* closed
RECURSIVE EndsInComment(_)
EndsInComment(p) ==
    \A s \in {skip_space(p)}, q \in {tok_next_aux2(p)} :
      \/ AtBlockComment(s) /\ Unclosed(s.lex_string)
      \/ /\ ~q.hung
         /\ q.tok_type \notin {T_EOF, T_ERROR}
         /\ EndsInComment(q)

\* C28: when the scanner meets a block comment that no * / closes (the
\* input / * / included), the token is an error token and the error message
\* says so, and cp_syn_parse returns false for every input in which the
\* scanner would meet such a comment.
C28_UnclosedComment ==
    /\ (pc = "read" /\ HasOpener) => BlockCommentsScanned(read_file(Input))
    /\ (pc = "done" /\ HasOpener /\ EndsInComment(read_file(Input))) =>
         /\ ~ret
         /\ Len(err_msg) > 0

\* cp_syn_parse has returned false on the input / * /
C28_Witness ==
    /\ pc = "done"
    /\ Input = <<C_SLASH, C_AST, C_SLASH>>
    /\ tok_type = T_ERROR
    /\ ~ret
    /\ err_msg[1] = Msg("File ends inside comment.\n", << >>, "")

(***************************************************************************)
(* Termination of cp_syn_parse.  The steps of cp_syn_parse follow one      *)
(* another in one thread, so a step that moves its position on is taken    *)
(* when one is possible; a call of tok_next that never returns leaves the  *)
(* position where it is.                                                   *)
(***************************************************************************)
TermInputs == Strs({C_QUOTE, C_BSLASH, C_SLASH, C_AST, C_a}, TermMaxLen)

InitTerm ==
    /\ \E s \in TermInputs : FileRead(s)
    /\ pc = "read"
    /\ ok = FALSE
    /\ ret = FALSE
    /\ toplevel = << >>
    /\ err_loc = NULL
    /\ WsIdle
    /\ ExtIdle
    /\ DrvIdle

SpecTerm == InitTerm /\ [][NextParse]_vars /\ WF_pc(NextParse)

\* C29: cp_syn_parse returns on every input: every call of tok_next returns
\* (also when the input ends inside a string or a block comment), and the
\* loops of parse_body and parse_args end.
C29_ParseTerminates == <>(pc = "done")

(***************************************************************************)
(* The error record when cp_syn_parse returns                              *)
(***************************************************************************)
\* files that hold NUL bytes: fread delivers them like any other byte
\* (syn.c:720-735)
NulInputs == Strs({C_NUL, C_a, C_LPAR, C_RPAR, C_SEMI}, NulMaxLen)

InitParseNul ==
    /\ \E s \in NulInputs : FileRead(s)
    /\ pc = "read"
    /\ ok = FALSE
    /\ ret = FALSE
    /\ toplevel = << >>
    /\ err_loc = NULL
    /\ WsIdle
    /\ ExtIdle
    /\ DrvIdle

SpecParseNul == InitParseNul /\ [][NextParse]_vars

\* C30: when cp_syn_parse has returned false on a file that was read, the
\* error message is not empty and err.loc points into the working buffer, at
\* the start of the token that was current at the failure (the parser reads
\* no token after a failure); when it has returned true, the token is the
\* end of input, the scanner is at the end of the buffer, and there is
\* neither a message nor a location.
C30_ErrorRecord ==
    pc = "done" =>
      IF ret
      THEN /\ tok_type = T_EOF
           /\ lex_string = lex_end
           /\ err_msg = << >>
           /\ err_loc = NULL
      ELSE /\ Len(err_msg) > 0
           /\ err_loc \in 0 .. lex_end
           /\ err_loc = tok_string
           /\ tok_type # T_EOF \/ ~ok

(***************************************************************************)
(* The cached character and the bounds of the cursor, checked on the       *)
(* step-by-step scanner                                                    *)
(***************************************************************************)
\* the byte at offset k of the original content is scanned by the default
\* case of tok_next_aux2 as a single-character token: it is no white space,
\* starts no number, identifier, string or comment and is not the end
Punctuation(k) ==
    /\ k < lex_end
    /\ At(content_orig, k) \in 1 .. 127
    /\ ~is_space(At(content_orig, k))
    /\ ~is_idchar(At(content_orig, k))
    /\ At(content_orig, k) \notin {C_PLUS, C_MINUS, C_DOT, C_DOLLAR, C_QUOTE}
    /\ (At(content_orig, k) = C_SLASH
          => At(content_orig, k + 1) \notin {C_SLASH, C_AST})

\* the token the last call of tok_next returned
LastDelivered == delivered[Len(delivered)]

\* tok_next was called right after it had returned a number or an identifier
CalledAfterLexeme == lx_from.type \in {T_ID, T_INT, T_FLOAT}

\* C31: at every point during scanning lex_cur is the byte of the untouched
\* original content at the cursor (NUL at the end of input), also when the
\* byte of the working buffer at the cursor was overwritten with NUL; so a
\* punctuation byte directly after a number or an identifier is returned by
\* the next call as its own single-character token.
C31_CachedCharacter ==
    /\ lex_cur = At(content_orig, lex_string)
    /\ (lex_string = lex_end => lex_cur = C_NUL)
    /\ (/\ lx_pc = "idle"
        /\ Len(delivered) > 0
        /\ CalledAfterLexeme
        /\ Punctuation(lx_from.at))
       => LastDelivered = [type |-> At(content_orig, lx_from.at),
                           string |-> lx_from.at,
                           end |-> lx_from.at + 1]

\* the input a; was scanned: the identifier was terminated with a NUL written
\* over the semicolon, and the semicolon was returned all the same
C31_Witness ==
    /\ lx_pc = "idle"
    /\ content_orig = << C_a, C_SEMI, C_NUL >>
    /\ content = << C_a, C_NUL, C_NUL >>
    /\ Len(delivered) = 2
    /\ delivered[1] = [type |-> T_ID, string |-> 0, end |-> 1]
    /\ delivered[2] = [type |-> C_SEMI, string |-> 1, end |-> 2]

\* the offsets of the working buffer, its terminating NUL included
BufferOffsets == 0 .. Len(content) - 1

\* C32: the cursor stays between the start of the buffer and the end of the
\* content, and every byte the scanner reads (the byte looked ahead at for
\* line and block comments included) or overwrites with NUL lies in the
\* working buffer, its terminating NUL included.
C32_CursorInBuffer ==
    /\ lex_string \in 0 .. lex_end
    /\ lx_rd \subseteq BufferOffsets
    /\ lx_wr \subseteq BufferOffsets
    /\ \A k \in lx_wr : At(content, k) = C_NUL

\* a slash is the last byte of the file: the byte looked ahead at is the
\* terminating NUL
C32_Witness ==
    /\ lx_pc = "char"
    /\ lex_cur = C_SLASH
    /\ lex_string = lex_end - 1
    /\ lx_rd = {lex_end}

=============================================================================
